---- MODULE Spec2Model ----
(***************************************************************************)
(* Polling & alert engine of zephyr-ipmi: the per-server poll job, the     *)
(* staleness monitor, the alert store (active_alerts table) and the        *)
(* operator requests that touch alert state.                               *)
(*                                                                         *)
(* Every action is one segment of a coroutine between two awaits: the      *)
(* asyncio loop runs such a segment without interruption, and other tasks  *)
(* may run at each await.  A database statement is atomic and takes effect *)
(* in the step that issues it.                                             *)
(***************************************************************************)
EXTENDS Integers, Sequences, FiniteSets, TLC

\* ------------------------------------------------------------------ bounds
MaxTime == 1          \* the logical clock runs 0..MaxTime (minutes)
PollSlots == 2        \* representable concurrent instances of one poll job
MaxRpm == 6000        \* the rpm requested of set_fan_speed run 0..MaxRpm+1

\* --------------------------------------------------------------- constants
None == -1            \* Python None in a numeric column
MaxInstances == 1     \* APScheduler add_job default max_instances
DefaultThreshold == 15
CriticalTemp == 80

ServerIds == {1, 2}
ChannelIds == {1, 2}
Kinds ==
  {"connectivity", "temperature_critical", "memory_errors", "power_failure",
   "intrusion", "voltage_issues", "system_events"}
\* order of the checks in _check_alerts
CheckOrder ==
  <<"memory_errors", "power_failure", "intrusion", "voltage_issues", "system_events">>
\* iteration order used for the keys of an alert_config dict
KindOrder ==
  <<"connectivity", "temperature_critical", "memory_errors", "power_failure",
    "intrusion", "voltage_issues", "system_events">>

VARIABLES now, servers, channels, alerts, jobs, proc, cond, undelivered

vars == <<now, servers, channels, alerts, jobs, proc, cond, undelivered>>

\* ------------------------------------------------------------- processes
PollOf(s, i) == <<"poll", s, i>>
StaleProc == <<"stale", 0, 0>>
ApiProc == <<"api", 0, 0>>
\* a second request in flight beside the one of ApiProc: POST and DELETE
AdminProc == <<"admin", 0, 0>>
PollProcs == {PollOf(s, i) : s \in ServerIds, i \in 1..PollSlots}
Procs == PollProcs \cup {StaleProc, ApiProc, AdminProc}

\* ------------------------------------------------------------ data model
NoServer ==
  [exists |-> FALSE, id |-> 0, vendor |-> "supermicro",
   poll_interval_seconds |-> 0, zones |-> <<>>, fan_overrides |-> <<>>,
   notification_channel_ids |-> {}, alert_config |-> <<>>,
   offline_alert_threshold_minutes |-> 0, last_successful_poll |-> None,
   created_at |-> 0]

NoOp == [type |-> "none", kind |-> "none", msg |-> "none", by |-> "none",
         seq |-> 0, ts |-> 0, pre |-> "none", prev |-> "none"]

NoPending == [set |-> FALSE, alert_config |-> <<>>, poll_interval_seconds |-> 0]

Idle ==
  [pc |-> "idle", sessOk |-> TRUE, srv |-> NoServer, op |-> NoOp,
   ret |-> "none", err |-> "none",
   cpu |-> None, base |-> None, ov |-> 0, chk |-> 0,
   failed |-> "none", cmds |-> <<>>, checked |-> {}, stamped |-> FALSE,
   snaps |-> <<>>, idx |-> 0, now0 |-> 0,
   pending |-> NoPending, todo |-> <<>>,
   found |-> <<>>, chq |-> <<>>, sent |-> <<>>, rows |-> {}]

IsAlertEnabledByDefault(server, k) ==
  k \notin DOMAIN server.alert_config \/ server.alert_config[k]

\* _is_alert_enabled(server, alert_type)
IsAlertEnabled(server, k) ==
  k \in DOMAIN server.alert_config /\ server.alert_config[k]

LiveRowsUnfiltered(s, k) == {r \in alerts : r.server = s /\ r.kind = k}

\* rows of active_alerts selected by
\* WHERE server_id = s AND alert_type = k AND cleared_at IS NULL
LiveRows(s, k) ==
  {r \in alerts : r.server = s /\ r.kind = k /\ r.cleared_at = None}

RowsOf(s, k) == {r \in alerts : r.server = s /\ r.kind = k}

UniqueViolationOff(s, k) == FALSE

\* UniqueConstraint("server_id", "alert_type"): an INSERT of a second row for
\* the pair is rejected, whatever the cleared_at of the row already there
UniqueViolation(s, k) == RowsOf(s, k) # {}

\* ---------------------------------------------------------- fan curve
\* list.index(x): position of the first element equal to x
IndexOf(seq, x) == CHOOSE i \in 1..Len(seq) : seq[i] = x /\ \A j \in 1..(i - 1) : seq[j] # x

RECURSIVE InsertZone(_, _)
InsertZone(sorted, z) ==
  IF sorted = <<>> THEN <<z>>
  ELSE IF z.temp_threshold < Head(sorted).temp_threshold THEN <<z>> \o sorted
  ELSE <<Head(sorted)>> \o InsertZone(Tail(sorted), z)

RECURSIVE SortZonesFrom(_, _)
SortZonesFrom(zones, acc) ==
  IF zones = <<>> THEN acc ELSE SortZonesFrom(Tail(zones), InsertZone(acc, Head(zones)))

SortedZonesAsGiven(zones) == zones

\* sorted(zones, key=lambda z: z.get('temp_threshold', 0)), a stable sort
SortedZones(zones) == SortZonesFrom(zones, <<>>)

RECURSIVE ZoneScan(_, _, _)
ZoneScan(sz, j, temp) ==
  IF j > Len(sz) THEN sz[Len(sz)].target_rpm
  ELSE LET i == IndexOf(sz, sz[j]) IN
       IF i = 1
       THEN IF temp <= sz[j].temp_threshold THEN sz[j].target_rpm
            ELSE ZoneScan(sz, j + 1, temp)
       ELSE IF sz[i - 1].temp_threshold < temp /\ temp <= sz[j].temp_threshold
            THEN sz[j].target_rpm
            ELSE ZoneScan(sz, j + 1, temp)

CalculateTargetRpmEmptyFull(server, temp) ==
  IF server.zones = <<>> THEN 0
  ELSE ZoneScan(SortedZones(server.zones), 1, temp)

CalculateTargetRpmFullAbove(server, temp) ==
  IF server.zones = <<>> THEN None
  ELSE LET sz == SortedZones(server.zones) IN
       IF temp > sz[Len(sz)].temp_threshold THEN 0 ELSE ZoneScan(sz, 1, temp)

\* _calculate_target_rpm(server, cpu_temp)
CalculateTargetRpm(server, temp) ==
  IF server.zones = <<>> THEN None
  ELSE ZoneScan(SortedZones(server.zones), 1, temp)

GetLowestZoneThreshold(server) ==
  IF Len(server.zones) < 2 THEN None
  ELSE SortedZones(server.zones)[1].temp_threshold

GetFirstZoneThresholdOrOnly(server) ==
  IF Len(server.zones) = 0 THEN None
  ELSE IF Len(server.zones) = 1 THEN server.zones[1].temp_threshold
  ELSE SortedZones(server.zones)[2].temp_threshold

\* _get_first_zone_threshold(server)
GetFirstZoneThreshold(server) ==
  IF Len(server.zones) < 2 THEN None
  ELSE SortedZones(server.zones)[2].temp_threshold

\* str.lower() on the vendor tags of the model
Lower(vendor) == IF vendor = "Supermicro" THEN "supermicro" ELSE vendor

VendorSupportedAny(vendor) == TRUE

\* _build_fan_command raises for every vendor but supermicro
VendorSupported(vendor) == Lower(vendor) = "supermicro"

Min(a, b) == IF a <= b THEN a ELSE b

SpeedByteUnclamped(target_rpm) ==
  IF target_rpm = 0 THEN 100
  ELSE IF target_rpm <= 2000 THEN 24
  ELSE IF target_rpm <= 3500 THEN 48
  ELSE (((target_rpm * 100) \div 5000) * 100) \div 100

\* speed_byte of _build_fan_command for supermicro.  The source computes
\* int((target_rpm / 5000) * 100) and int((percentage / 100) * 0x64) in
\* binary floating point; for every target_rpm of 0..20000 the source
\* function returns the byte of the integer arithmetic below.
SpeedByte(target_rpm) ==
  IF target_rpm = 0 THEN 100
  ELSE IF target_rpm <= 2000 THEN 24
  ELSE IF target_rpm <= 3500 THEN 48
  ELSE LET percentage == Min(100, (target_rpm * 100) \div 5000)
       IN Min(100, (percentage * 100) \div 100)

\* the raw command of set_fan_speed: zone byte 0x01 addresses all fans, 0x00
\* a named fan
FanCommand(target_rpm, fan_identifier) ==
  [rpm |-> target_rpm, fan |-> fan_identifier,
   zone |-> IF fan_identifier = "" THEN 1 ELSE 0,
   byte |-> SpeedByte(target_rpm)]

\* ------------------------------------------------- coroutine segments
StartOp(pr, type, kind, msg, by, ret, err) ==
  [pr EXCEPT !.pc = "op_read",
             !.op = [type |-> type, kind |-> kind, msg |-> msg, by |-> by,
                     seq |-> 0, ts |-> 0, pre |-> "none",
                     prev |-> cond[pr.srv.id][kind]],
             !.ret = ret, !.err = err, !.chq = <<>>, !.sent = <<>>]

\* the except clauses of _poll_server: the three of them activate
\* connectivity when it is enabled, with a message that names the failure
OnException(pr, msg, stage) ==
  IF IsAlertEnabled(pr.srv, "connectivity")
  THEN StartOp([pr EXCEPT !.failed = stage], "activate", "connectivity", msg,
               "none", "finish", "abort")
  ELSE Idle

RECURSIVE NextCheck(_, _)
NextCheck(server, j) ==
  IF j > Len(CheckOrder) THEN 0
  ELSE IF IsAlertEnabled(server, CheckOrder[j]) THEN j
  ELSE NextCheck(server, j + 1)

\* _check_alerts from check number j on, up to its next await; falls through
\* to the assignment of last_successful_poll
EnterChecks(pr, j) ==
  LET n == IF pr.srv.notification_channel_ids = {} THEN 0
           ELSE NextCheck(pr.srv, j) IN
  IF n = 0 THEN [pr EXCEPT !.pc = "stamp", !.op = [NoOp EXCEPT !.ts = now]]
  ELSE [pr EXCEPT !.pc = "q_check", !.chk = n, !.op = NoOp]

\* the temperature_critical check of _poll_server
TempCritical(pr) ==
  LET chk == [pr EXCEPT !.checked = @ \cup {"temperature_critical"},
                        !.found = @ @@ ("temperature_critical" :>
                           IF pr.cpu >= CriticalTemp THEN "present" ELSE "absent")] IN
  IF IsAlertEnabled(pr.srv, "temperature_critical")
  THEN IF pr.cpu >= CriticalTemp
       THEN StartOp(chk, "activate", "temperature_critical", "critical", "none",
                    "checks", "exc")
       ELSE StartOp(chk, "clear", "temperature_critical", "none", "auto",
                    "checks", "exc")
  ELSE EnterChecks(pr, 1)

RECURSIVE NextOverride(_, _)
NextOverride(server, j) ==
  IF j > Len(server.fan_overrides) THEN 0
  ELSE IF server.fan_overrides[j].fan_identifier = "" \/ server.fan_overrides[j].min_rpm = None
       THEN NextOverride(server, j + 1)
  ELSE j

EnterOverridesUnfiltered(pr, j) ==
  IF j > Len(pr.srv.fan_overrides) THEN TempCritical([pr EXCEPT !.ov = 0])
  ELSE [pr EXCEPT !.pc = "override", !.ov = j]

\* the override loop of _poll_server from override number j on
EnterOverrides(pr, j) ==
  LET n == NextOverride(pr.srv, j) IN
  IF n = 0 THEN TempCritical([pr EXCEPT !.ov = 0])
  ELSE [pr EXCEPT !.pc = "override", !.ov = n]

MonitoredAll(server) == TRUE

\* the two guards of the loop of _check_offline_servers: connectivity
\* alerting enabled and at least one notification channel
Monitored(server) ==
  IsAlertEnabled(server, "connectivity") /\ server.notification_channel_ids # {}

RECURSIVE StaleScan(_)
\* the loop of _check_offline_servers from server number pr.idx on
StaleScan(pr) ==
  IF pr.idx > Len(pr.snaps) THEN Idle
  ELSE LET server == pr.snaps[pr.idx]
           thr == IF server.offline_alert_threshold_minutes = 0 THEN DefaultThreshold
                  ELSE server.offline_alert_threshold_minutes
           skip == StaleScan([pr EXCEPT !.idx = pr.idx + 1])
           at == [pr EXCEPT !.srv = server]
       IN
       IF ~Monitored(server) THEN skip
       ELSE IF server.last_successful_poll = None
            THEN IF pr.now0 - server.created_at >= thr
                 THEN StartOp(at, "activate", "connectivity", "never_responded", "none",
                              "stale_next", "abort")
                 ELSE skip
       ELSE IF pr.now0 - server.last_successful_poll >= thr
            THEN StartOp(at, "activate", "connectivity", "offline", "none",
                         "stale_next", "abort")
            ELSE StartOp(at, "clear", "connectivity", "none", "auto",
                         "stale_next", "abort")

\* the loop of update_server over the alert types that were disabled
UpdateScan(pr) ==
  IF pr.todo = <<>> THEN [pr EXCEPT !.pc = "upd_commit", !.op = NoOp]
  ELSE StartOp([pr EXCEPT !.todo = Tail(pr.todo)], "clear", Head(pr.todo), "none",
               "manual", "upd_next", "abort")

\* the code that follows an await, up to the next await
Resume(pr, label) ==
  CASE label = "checks" -> EnterChecks(pr, 1)
    [] label = "next_check" -> EnterChecks(pr, pr.chk + 1)
    [] label = "exc" -> OnException(pr, "unexpected", "store")
    [] label = "stale_next" -> StaleScan([pr EXCEPT !.idx = pr.idx + 1, !.op = NoOp])
    [] label = "upd_next" -> UpdateScan(pr)
    [] label = "api_done" -> [pr EXCEPT !.pc = "api_commit", !.op = NoOp]
    [] OTHER -> Idle

\* the condition a poll cycle hands to the alert store for a kind: present
\* when it calls activate, absent when it calls clear (an observer of the
\* cycles; a pair that starts as "untracked" is not observed)
PollCond(p, old, new) ==
  IF p \in PollProcs /\ new.pc = "op_read"
     /\ (old.pc # "op_read" \/ new.op.kind # old.op.kind)
     /\ cond[p[2]][new.op.kind] # "untracked"
  THEN [cond EXCEPT ![p[2]][new.op.kind] =
          IF new.op.type = "activate" THEN "present" ELSE "absent"]
  ELSE cond

\* ------------------------------------------------------- alert store
\* a pending change of update_server reaches the database with the first
\* commit of its session
ApplyPending(pr) ==
  IF pr.pending.set /\ servers[pr.srv.id].exists
  THEN [servers EXCEPT ![pr.srv.id].alert_config = pr.pending.alert_config,
                       ![pr.srv.id].poll_interval_seconds = pr.pending.poll_interval_seconds]
  ELSE servers

\* the SELECT of _activate_alert / _clear_alert_if_active and the code up to
\* session.commit()
OpRead(p) ==
  /\ proc[p].pc = "op_read"
  /\ LET pr == proc[p]
         live == LiveRows(pr.srv.id, pr.op.kind)
         pre == IF live # {} THEN "live"
                ELSE IF RowsOf(pr.srv.id, pr.op.kind) # {} THEN "cleared" ELSE "none"
     IN
     IF ~pr.sessOk \/ Cardinality(live) > 1
     THEN \* PendingRollbackError, or MultipleResultsFound of scalar_one_or_none
          /\ proc' = [proc EXCEPT ![p] = Resume(pr, pr.err)]
     ELSE IF live = {} /\ pr.op.type = "clear"
     THEN /\ proc' = [proc EXCEPT ![p] = Resume([pr EXCEPT !.op.pre = pre], pr.ret)]
     ELSE /\ proc' = [proc EXCEPT ![p].pc = "op_commit",
                                  ![p].op.pre = pre,
                                  ![p].op.ts = now,
                                  ![p].op.seq = IF live = {} THEN 0
                                                ELSE (CHOOSE r \in live : TRUE).seq]
  /\ cond' = PollCond(p, proc[p], proc'[p])
  /\ UNCHANGED <<undelivered, now, servers, channels, alerts, jobs>>

\* session.commit() of _activate_alert / _clear_alert_if_active
OpCommit(p) ==
  /\ proc[p].pc = "op_commit"
  /\ LET pr == proc[p]
         o == pr.op
         s == pr.srv.id
         row == {r \in alerts : r.server = s /\ r.kind = o.kind /\ r.seq = o.seq}
         others == alerts \ row
         fail == /\ proc' = [proc EXCEPT ![p] = Resume([pr EXCEPT !.sessOk = FALSE], pr.err)]
                 /\ UNCHANGED <<alerts, servers>>
     IN
     IF o.seq = 0
     THEN \* INSERT of a new live row
          IF UniqueViolation(s, o.kind)
          THEN fail
          ELSE /\ alerts' = alerts \cup
                    {[server |-> s, kind |-> o.kind,
                      seq |-> Cardinality(RowsOf(s, o.kind)) + 1,
                      message |-> o.msg, first_triggered_at |-> o.ts,
                      last_updated_at |-> o.ts, cleared_at |-> None,
                      cleared_by |-> "none"]}
               /\ servers' = ApplyPending(pr)
               /\ proc' = [proc EXCEPT ![p].pc = "op_notify"]
     ELSE IF row = {} \/ (pr.pending.set /\ ~servers[s].exists)
     THEN fail   \* StaleDataError: the row is gone
     ELSE LET r == CHOOSE x \in row : TRUE IN
          IF o.type = "activate"
          THEN /\ alerts' = others \cup {[r EXCEPT !.last_updated_at = o.ts]}
               /\ servers' = ApplyPending(pr)
               /\ proc' = [proc EXCEPT ![p] = Resume(pr, pr.ret)]
          ELSE /\ alerts' = others \cup {[r EXCEPT !.cleared_at = o.ts,
                                                   !.cleared_by = o.by,
                                                   !.last_updated_at = o.ts]}
               /\ servers' = ApplyPending(pr)
               /\ proc' = [proc EXCEPT ![p].pc = "op_notify",
                                       ![p].pending = NoPending]
  /\ cond' = PollCond(p, proc[p], proc'[p])
  /\ UNCHANGED <<undelivered, now, channels, jobs>>

\* the provider classes of _send_alert_notification; a telegram channel
\* needs a chat_id in its metadata
Deliverable(c) ==
  \/ channels[c].type \in {"slack", "teams", "discord"}
  \/ channels[c].type = "telegram" /\ channels[c].chat_id

RECURSIVE ChannelList(_)
\* select(NotificationChannel) of the enabled channels with an id in ids, in
\* id order
ChannelList(ids) ==
  IF ids \cap ChannelIds = {} THEN <<>>
  ELSE LET m == CHOOSE x \in ids \cap ChannelIds : \A y \in ids \cap ChannelIds : x <= y IN
       (IF channels[m].enabled THEN <<m>> ELSE <<>>) \o ChannelList(ids \ {m})

RECURSIVE SkipChannels(_)
\* the loop over the channels up to the next await notify(...): a channel of
\* an unsupported type or without chat_id is logged and skipped
SkipChannels(q) ==
  IF q = <<>> THEN <<>>
  ELSE IF Deliverable(Head(q)) THEN q
  ELSE SkipChannels(Tail(q))

\* _send_alert_notification up to its first delivery
OpNotify(p) ==
  /\ proc[p].pc = "op_notify"
  /\ LET pr == proc[p]
         q == SkipChannels(ChannelList(pr.srv.notification_channel_ids))
     IN
     proc' = [proc EXCEPT ![p] = IF q = <<>> THEN Resume(pr, pr.ret)
                                 ELSE [pr EXCEPT !.pc = "op_send", !.chq = q]]
  /\ cond' = PollCond(p, proc[p], proc'[p])
  /\ UNCHANGED <<undelivered, now, servers, channels, alerts, jobs>>

OpSendStopOnFailure(p, O) ==
  /\ proc[p].pc = "op_send"
  /\ LET pr == proc[p]
         c == Head(pr.chq)
         q == SkipChannels(Tail(pr.chq))
         key == <<pr.srv.id, pr.op.kind, pr.op.type, c>>
         nx == [pr EXCEPT !.sent = Append(@, c), !.chq = q]
     IN
     \E o \in O :
        /\ proc' = [proc EXCEPT ![p] = IF o # "ok" THEN Resume(nx, pr.err)
                                       ELSE IF q = <<>> THEN Resume(nx, pr.ret)
                                       ELSE nx]
        /\ undelivered' =
             (undelivered \ {<<pr.srv.id, pr.op.kind, t, c>> : t \in {"activate", "clear"}})
                \cup (IF o = "ok" THEN {} ELSE {key})
  /\ cond' = PollCond(p, proc[p], proc'[p])
  /\ UNCHANGED <<now, servers, channels, alerts, jobs>>

OpSendUndoOnFailure(p, O) ==
  /\ proc[p].pc = "op_send"
  /\ LET pr == proc[p]
         c == Head(pr.chq)
         q == SkipChannels(Tail(pr.chq))
         key == <<pr.srv.id, pr.op.kind, pr.op.type, c>>
         nx == [pr EXCEPT !.sent = Append(@, c), !.chq = q]
     IN
     \E o \in O :
        /\ proc' = [proc EXCEPT ![p] = IF q = <<>> THEN Resume(nx, pr.ret) ELSE nx]
        /\ undelivered' =
             (undelivered \ {<<pr.srv.id, pr.op.kind, t, c>> : t \in {"activate", "clear"}})
                \cup (IF o = "ok" THEN {} ELSE {key})
        /\ alerts' = IF o = "ok" THEN alerts
                     ELSE alerts \ RowsOf(pr.srv.id, pr.op.kind)
  /\ cond' = PollCond(p, proc[p], proc'[p])
  /\ UNCHANGED <<now, servers, channels, jobs>>

\* await notify(provider, notification) for one channel: a delivery that
\* fails is logged and the loop goes on with the next channel
OpSend(p, O) ==
  /\ proc[p].pc = "op_send"
  /\ LET pr == proc[p]
         c == Head(pr.chq)
         q == SkipChannels(Tail(pr.chq))
         key == <<pr.srv.id, pr.op.kind, pr.op.type, c>>
         nx == [pr EXCEPT !.sent = Append(@, c), !.chq = q]
     IN
     \E o \in O :
        /\ proc' = [proc EXCEPT ![p] = IF q = <<>> THEN Resume(nx, pr.ret) ELSE nx]
        /\ undelivered' =
             (undelivered \ {<<pr.srv.id, pr.op.kind, t, c>> : t \in {"activate", "clear"}})
                \cup (IF o = "ok" THEN {} ELSE {key})
  /\ cond' = PollCond(p, proc[p], proc'[p])
  /\ UNCHANGED <<now, servers, channels, alerts, jobs>>

DeliveryOutcomes == {"ok", "failed"}

\* ------------------------------------------------------------ poll job
QueryFailures == {"unreachable", "ipmi_error", "unexpected"}
TempReadings == {None, 48, 85}

Running(s) == {i \in 1..PollSlots : proc[PollOf(s, i)].pc # "idle"}

Step(p, newpr) ==
  /\ proc' = [proc EXCEPT ![p] = newpr]
  /\ cond' = PollCond(p, proc[p], newpr)

PollTickUnguarded(s) ==
  /\ jobs[s] # None
  /\ Cardinality(Running(s)) < PollSlots
  /\ servers[s].exists
  /\ LET i == CHOOSE j \in 1..PollSlots :
                 j \notin Running(s) /\ \A k \in 1..(j - 1) : k \in Running(s)
     IN proc' = [proc EXCEPT ![PollOf(s, i)] =
                   [Idle EXCEPT !.pc = "q_temp", !.srv = servers[s]]]
  /\ UNCHANGED <<undelivered, now, servers, channels, alerts, jobs, cond>>

\* a tick of the interval trigger of job poll-server-<s>: the executor runs
\* the job unless max_instances instances of that job id are running; the
\* job starts with _load_server and returns when the server is gone
PollTick(s) ==
  /\ jobs[s] # None
  /\ Cardinality(Running(s)) < MaxInstances
  /\ servers[s].exists
  /\ LET i == CHOOSE j \in 1..PollSlots :
                 j \notin Running(s) /\ \A k \in 1..(j - 1) : k \in Running(s)
     IN proc' = [proc EXCEPT ![PollOf(s, i)] =
                   [Idle EXCEPT !.pc = "q_temp", !.srv = servers[s]]]
  /\ UNCHANGED <<undelivered, now, servers, channels, alerts, jobs, cond>>

\* client.query_temperatures()
PollQueryTemp(s, i, T, F) ==
  /\ proc[PollOf(s, i)].pc = "q_temp"
  /\ LET p == PollOf(s, i)  pr == proc[p] IN
     \/ \E t \in T : Step(p, [pr EXCEPT !.pc = "q_fans", !.cpu = t])
     \/ \E f \in F : Step(p, OnException(pr, f, "temp_query"))
  /\ UNCHANGED <<undelivered, now, servers, channels, alerts, jobs>>

\* client.query_fans(), _parse_cpu_temperature and _calculate_target_rpm
PollQueryFans(s, i, F) ==
  /\ proc[PollOf(s, i)].pc = "q_fans"
  /\ LET p == PollOf(s, i)  pr == proc[p]
         base == CalculateTargetRpm(pr.srv, pr.cpu) IN
     \/ Step(p, IF pr.cpu = None THEN EnterChecks(pr, 1)
                ELSE IF base = None THEN TempCritical(pr)
                ELSE [pr EXCEPT !.pc = "set_base", !.base = base])
     \/ \E f \in F : Step(p, OnException(pr, f, "fan_query"))
  /\ UNCHANGED <<undelivered, now, servers, channels, alerts, jobs>>

\* client.set_fan_speed(base_rpm)
PollSetBase(s, i, F) ==
  /\ proc[PollOf(s, i)].pc = "set_base"
  /\ LET p == PollOf(s, i)  pr == proc[p] IN
     IF ~VendorSupported(pr.srv.vendor)
     THEN Step(p, OnException(pr, "unexpected", "fan_cmd"))
     ELSE \/ Step(p, EnterOverrides(
                       [pr EXCEPT !.cmds = Append(pr.cmds, FanCommand(pr.base, ""))], 1))
          \/ \E f \in F : Step(p, OnException(pr, f, "fan_cmd"))
  /\ UNCHANGED <<undelivered, now, servers, channels, alerts, jobs>>

\* client.set_fan_speed(rpm, fan_identifier=...) of one override
PollOverride(s, i, F) ==
  /\ proc[PollOf(s, i)].pc = "override"
  /\ LET p == PollOf(s, i)  pr == proc[p]
         ov == pr.srv.fan_overrides[pr.ov]
         thr == GetFirstZoneThreshold(pr.srv)
         rpm == IF thr # None /\ pr.cpu <= thr THEN ov.min_rpm ELSE pr.base
     IN
     \/ Step(p, EnterOverrides(
                  [pr EXCEPT !.cmds = Append(pr.cmds, FanCommand(rpm, ov.fan_identifier))],
                  pr.ov + 1))
     \/ \E f \in F : Step(p, OnException(pr, f, "fan_cmd"))
  /\ UNCHANGED <<undelivered, now, servers, channels, alerts, jobs>>

\* IPMIClient._run awaits process.communicate() without a timeout: a call
\* whose ipmitool process never exits never returns
HungCalls == {"q_temp", "q_fans", "set_base", "override", "q_check"}

PollHang(s, i) ==
  /\ proc[PollOf(s, i)].pc \in HungCalls
  /\ proc' = [proc EXCEPT ![PollOf(s, i)].pc = "hung"]
  /\ UNCHANGED <<undelivered, now, servers, channels, alerts, jobs, cond>>

\* one check of _check_alerts: the query and the parse of its output.  The
\* query methods of IPMIClient turn an IPMICommandError into "", which the
\* parsers read as no problem; any other exception skips the check.
CheckResults == {"present", "absent", "ipmi_fail", "other_fail"}

PollQueryCheck(s, i, R) ==
  /\ proc[PollOf(s, i)].pc = "q_check"
  /\ LET p == PollOf(s, i)
         pr == [proc[p] EXCEPT !.checked = @ \cup {CheckOrder[proc[p].chk]}]
         k == CheckOrder[pr.chk]
     IN
     \E r \in R :
        LET fr == [pr EXCEPT !.found = @ @@ (k :> r)] IN
        Step(p, CASE r = "present" ->
                       StartOp(fr, "activate", k, "detected", "none", "next_check", "next_check")
                  [] r \in {"absent", "ipmi_fail"} ->
                       StartOp(fr, "clear", k, "none", "auto", "next_check", "next_check")
                  [] OTHER -> EnterChecks(fr, pr.chk + 1))
  /\ UNCHANGED <<undelivered, now, servers, channels, alerts, jobs>>

\* server.last_successful_poll = now; session.commit(); then the else clause
PollStamp(s, i) ==
  /\ proc[PollOf(s, i)].pc = "stamp"
  /\ LET p == PollOf(s, i)  pr == proc[p] IN
     IF ~pr.sessOk \/ ~servers[s].exists
     THEN \* PendingRollbackError, or StaleDataError of the UPDATE
          /\ Step(p, OnException([pr EXCEPT !.sessOk = FALSE], "unexpected", "stamp"))
          /\ UNCHANGED servers
     ELSE /\ servers' = [servers EXCEPT ![s].last_successful_poll = pr.op.ts]
          /\ Step(p, IF IsAlertEnabled(pr.srv, "connectivity")
                     THEN StartOp([pr EXCEPT !.stamped = TRUE], "clear", "connectivity",
                                  "none", "auto", "finish", "abort")
                     ELSE Idle)
  /\ UNCHANGED <<undelivered, now, channels, alerts, jobs>>

\* ---------------------------------------------------- staleness monitor
RECURSIVE ServerList(_)
\* select(ServerTarget): the rows in id order
ServerList(ids) ==
  IF ids = {} THEN <<>>
  ELSE LET m == CHOOSE x \in ids : \A y \in ids : x <= y IN
       (IF servers[m].exists THEN <<servers[m]>> ELSE <<>>) \o ServerList(ids \ {m})

\* a tick of job check-offline-servers (one instance of it at a time)
StaleTick ==
  /\ proc[StaleProc].pc = "idle"
  /\ proc' = [proc EXCEPT ![StaleProc].pc = "load"]
  /\ UNCHANGED <<undelivered, now, servers, channels, alerts, jobs, cond>>

\* the SELECT of all servers of _check_offline_servers, now, and the loop up
\* to the first store call
StaleLoad ==
  /\ proc[StaleProc].pc = "load"
  /\ proc' = [proc EXCEPT ![StaleProc] =
                StaleScan([Idle EXCEPT !.snaps = ServerList(ServerIds),
                                       !.idx = 1, !.now0 = now])]
  /\ UNCHANGED <<undelivered, now, servers, channels, alerts, jobs, cond>>

\* ------------------------------------------------------ operator requests
ManualClearAsAuto(s, k) ==
  /\ proc[ApiProc].pc = "idle"
  /\ servers[s].exists
  /\ proc' = [proc EXCEPT ![ApiProc] =
                StartOp([Idle EXCEPT !.srv = servers[s]], "clear", k, "none", "auto",
                        "api_done", "abort")]
  /\ UNCHANGED <<undelivered, now, servers, channels, alerts, jobs, cond>>

\* session.commit() of clear_server_alert and its response: 200 with status
\* success, or the exception of the commit
ApiCommit ==
  /\ proc[ApiProc].pc = "api_commit"
  /\ proc' = [proc EXCEPT ![ApiProc] = Idle]
  /\ UNCHANGED <<undelivered, now, servers, channels, alerts, jobs, cond>>

\* POST /servers/{id}/alerts/{alert_type}/clear up to the SELECT of the store
ManualClear(s, k) ==
  /\ proc[ApiProc].pc = "idle"
  /\ servers[s].exists
  /\ proc' = [proc EXCEPT ![ApiProc] =
                StartOp([Idle EXCEPT !.srv = servers[s]], "clear", k, "none", "manual",
                        "api_done", "abort")]
  /\ UNCHANGED <<undelivered, now, servers, channels, alerts, jobs, cond>>

DisabledExplicitly(old, new) ==
  SelectSeq(KindOrder,
            LAMBDA k : /\ k \in DOMAIN old /\ old[k]
                       /\ k \in DOMAIN new /\ ~new[k])

\* the alert types update_server clears: enabled in the old map and not
\* enabled in the new one
Disabled(old, new) ==
  SelectSeq(KindOrder,
            LAMBDA k : /\ k \in DOMAIN old /\ old[k]
                       /\ ~(k \in DOMAIN new /\ new[k]))

\* PUT /servers/{id}: update_server up to its first await in the store
UpdateServer(s, cfg, interval) ==
  /\ proc[ApiProc].pc = "idle"
  /\ servers[s].exists
  /\ proc' = [proc EXCEPT ![ApiProc] =
                UpdateScan([Idle EXCEPT
                   !.srv = [servers[s] EXCEPT !.alert_config = cfg,
                                              !.poll_interval_seconds = interval],
                   !.pending = [set |-> cfg # servers[s].alert_config
                                        \/ interval # servers[s].poll_interval_seconds,
                                alert_config |-> cfg,
                                poll_interval_seconds |-> interval],
                   !.todo = Disabled(servers[s].alert_config, cfg)])]
  /\ UNCHANGED <<undelivered, now, servers, channels, alerts, jobs, cond>>

DefaultPollInterval == 300

\* schedule_poll_job: add_job(..., id=poll-server-<id>, replace_existing=True)
SchedulePollJob(s, interval) ==
  [jobs EXCEPT ![s] = IF interval = 0 THEN DefaultPollInterval ELSE interval]

\* the end of PUT /servers/{id}: session.commit() and schedule_poll_job
UpdateCommit ==
  /\ proc[ApiProc].pc = "upd_commit"
  /\ servers' = ApplyPending(proc[ApiProc])
  /\ jobs' = IF proc[ApiProc].pending.set /\ ~servers[proc[ApiProc].srv.id].exists
             THEN jobs   \* StaleDataError of the UPDATE: the row is gone
             ELSE SchedulePollJob(proc[ApiProc].srv.id,
                                  proc[ApiProc].srv.poll_interval_seconds)
  /\ proc' = [proc EXCEPT ![ApiProc] = Idle]
  /\ UNCHANGED <<undelivered, now, channels, alerts, cond>>

\* POST /servers: create_server up to the commit; the row gets a free id
CreateServer(s, cfg, chans, interval) ==
  /\ proc[AdminProc].pc = "idle"
  /\ ~servers[s].exists
  /\ proc' = [proc EXCEPT ![AdminProc] =
                [Idle EXCEPT !.pc = "create_commit",
                   !.srv = [NoServer EXCEPT !.exists = TRUE, !.id = s,
                              !.poll_interval_seconds = interval,
                              !.notification_channel_ids = chans,
                              !.alert_config = cfg,
                              !.offline_alert_threshold_minutes = 1,
                              !.created_at = now]]]
  /\ UNCHANGED <<undelivered, now, servers, channels, alerts, jobs, cond>>

\* the end of POST /servers: session.commit() and schedule_poll_job
CreateCommit ==
  /\ proc[AdminProc].pc = "create_commit"
  /\ servers' = [servers EXCEPT ![proc[AdminProc].srv.id] = proc[AdminProc].srv]
  /\ jobs' = SchedulePollJob(proc[AdminProc].srv.id,
                             proc[AdminProc].srv.poll_interval_seconds)
  /\ proc' = [proc EXCEPT ![AdminProc] = Idle]
  /\ UNCHANGED <<undelivered, now, channels, alerts, cond>>

\* DELETE /servers/{id}: scheduler.remove_job first (a missing job is
\* ignored), then the SELECT of get_server
DeleteServer(s) ==
  /\ proc[AdminProc].pc = "idle"
  /\ jobs' = [jobs EXCEPT ![s] = None]
  /\ proc' = [proc EXCEPT ![AdminProc] =
                [Idle EXCEPT !.pc = "del_load", !.srv = [NoServer EXCEPT !.id = s]]]
  /\ UNCHANGED <<undelivered, now, servers, channels, alerts, cond>>

\* delete_server: ValueError (404) when the server is gone; session.delete
\* loads the alert rows of the server for the delete cascade
DeleteLoad ==
  /\ proc[AdminProc].pc = "del_load"
  /\ LET pr == proc[AdminProc]  s == pr.srv.id IN
     proc' = [proc EXCEPT ![AdminProc] =
                IF ~servers[s].exists THEN Idle
                ELSE [pr EXCEPT !.pc = "del_commit",
                                !.rows = {<<r.kind, r.seq>> : r \in {x \in alerts : x.server = s}}]]
  /\ UNCHANGED <<undelivered, now, servers, channels, alerts, jobs, cond>>

\* session.flush() and session.commit() of the delete: the loaded alert rows
\* and the server row go
DeleteCommit ==
  /\ proc[AdminProc].pc = "del_commit"
  /\ LET pr == proc[AdminProc]  s == pr.srv.id IN
     /\ servers' = [servers EXCEPT ![s] = NoServer]
     /\ alerts' = {r \in alerts : ~(r.server = s /\ <<r.kind, r.seq>> \in pr.rows)}
  /\ proc' = [proc EXCEPT ![AdminProc] = Idle]
  /\ UNCHANGED <<undelivered, now, channels, jobs, cond>>

\* ---------------------------------------------------------------- time
Tick ==
  /\ now < MaxTime
  /\ now' = now + 1
  /\ UNCHANGED <<undelivered, servers, channels, alerts, jobs, proc, cond>>

\* the clock counts minutes and a job or a request takes far less: a minute
\* that passes while nothing is in flight
TickIdle ==
  /\ \A p \in Procs : proc[p].pc = "idle"
  /\ Tick

\* ------------------------------------------------------- specification
Zones3 == <<[temp_threshold |-> 50, target_rpm |-> 1800],
            [temp_threshold |-> 52, target_rpm |-> 3500],
            [temp_threshold |-> 70, target_rpm |-> 5000]>>

Override1 == <<[fan_identifier |-> "FAN1", min_rpm |-> 1200]>>

CfgNone == <<>>
CfgConn == [k \in {"connectivity"} |-> TRUE]

InitServer(s, cfg, chans, thr, zones, overrides) ==
  [exists |-> TRUE, id |-> s, vendor |-> "supermicro",
   poll_interval_seconds |-> 60, zones |-> zones, fan_overrides |-> overrides,
   notification_channel_ids |-> chans, alert_config |-> cfg,
   offline_alert_threshold_minutes |-> thr, last_successful_poll |-> None,
   created_at |-> 0]

Slack == [enabled |-> TRUE, type |-> "slack", chat_id |-> FALSE]

\* server 1 alone, with a timer, and nothing in flight
InitWith(cfgs, chans, zones, overrides, track) ==
  /\ now = 0
  /\ \E cfg \in cfgs, ch \in chans :
       servers = [s \in ServerIds |->
                    IF s = 1 THEN InitServer(s, cfg, ch, 1, zones, overrides)
                    ELSE NoServer]
  /\ channels = [c \in ChannelIds |-> Slack]
  /\ alerts = {}
  /\ jobs = [s \in ServerIds |-> IF s = 1 THEN 60 ELSE None]
  /\ proc = [p \in Procs |-> Idle]
  /\ cond = [s \in ServerIds |-> [k \in Kinds |-> track]]
  /\ undelivered = {}

\* poll cycles, staleness runs, manual clears and configuration updates of
\* one server, in every interleaving
Init == InitWith({CfgConn}, {{1}}, <<>>, <<>>, "untracked")

Next ==
  \/ TickIdle
  \/ \E s \in ServerIds : PollTick(s)
  \/ \E s \in ServerIds, i \in 1..PollSlots : PollQueryTemp(s, i, {48}, {"unreachable"})
  \/ \E s \in ServerIds, i \in 1..PollSlots : PollQueryFans(s, i, {"unreachable"})
  \/ \E s \in ServerIds, i \in 1..PollSlots : PollStamp(s, i)
  \/ StaleTick
  \/ StaleLoad
  \/ \E s \in ServerIds, k \in {"connectivity"} : ManualClear(s, k)
  \/ ApiCommit
  \/ \E s \in ServerIds, cfg \in {CfgConn, CfgNone}, n \in {60} :
       UpdateServer(s, cfg, n)
  \/ UpdateCommit
  \/ \E p \in Procs : OpRead(p)
  \/ \E p \in Procs : OpCommit(p)
  \/ \E p \in Procs : OpNotify(p)
  \/ \E p \in Procs : OpSend(p, {"ok"})

Spec == Init /\ [][Next]_vars

\* the poll cycles of one server, one after the other, with fan control and
\* the checks of three kinds; every condition handed to the store is observed
CfgPoll == [k \in {"connectivity", "temperature_critical", "memory_errors"} |-> TRUE]

InitPoll == InitWith({CfgPoll}, {{}, {1}}, Zones3, Override1, "unknown")

NextPoll ==
  \/ TickIdle
  \/ \E s \in ServerIds : PollTick(s)
  \/ \E s \in ServerIds, i \in 1..PollSlots : PollQueryTemp(s, i, TempReadings, QueryFailures)
  \/ \E s \in ServerIds, i \in 1..PollSlots : PollQueryFans(s, i, QueryFailures)
  \/ \E s \in ServerIds, i \in 1..PollSlots : PollSetBase(s, i, QueryFailures)
  \/ \E s \in ServerIds, i \in 1..PollSlots : PollOverride(s, i, QueryFailures)
  \/ \E s \in ServerIds, i \in 1..PollSlots : PollQueryCheck(s, i, CheckResults)
  \/ \E s \in ServerIds, i \in 1..PollSlots : PollStamp(s, i)
  \/ \E p \in PollProcs : OpRead(p)
  \/ \E p \in PollProcs : OpCommit(p)
  \/ \E p \in PollProcs : OpNotify(p)
  \/ \E p \in PollProcs : OpSend(p, {"ok"})

SpecPoll == InitPoll /\ [][NextPoll]_vars

\* the poll timer of one server: its ticks, the cycles they start and the
\* updates that replace the timer, with a new interval or the same one
NextTimer ==
  \/ TickIdle
  \/ \E s \in ServerIds : PollTick(s)
  \/ \E s \in ServerIds, i \in 1..PollSlots : PollQueryTemp(s, i, {48}, {"unreachable"})
  \/ \E s \in ServerIds, i \in 1..PollSlots : PollQueryFans(s, i, {"unreachable"})
  \/ \E s \in ServerIds, i \in 1..PollSlots : PollStamp(s, i)
  \/ \E s \in ServerIds, cfg \in {CfgConn, CfgNone}, n \in {60, 120} :
       UpdateServer(s, cfg, n)
  \/ UpdateCommit
  \/ \E p \in Procs : OpRead(p)
  \/ \E p \in Procs : OpCommit(p)
  \/ \E p \in Procs : OpNotify(p)
  \/ \E p \in Procs : OpSend(p, {"ok"})

SpecTimer == Init /\ [][NextTimer]_vars

\* the staleness monitor over two servers, the first with or without
\* connectivity alerting and channels, and the poll cycles of the first
InitStale ==
  /\ now = 0
  /\ \E cfg \in {CfgNone, CfgConn}, ch \in {{}, {1}} :
       servers = [s \in ServerIds |->
                    IF s = 1 THEN InitServer(s, cfg, ch, 1, <<>>, <<>>)
                    ELSE InitServer(s, CfgConn, {1}, 1, <<>>, <<>>)]
  /\ channels = [c \in ChannelIds |-> Slack]
  /\ alerts = {}
  /\ jobs = [s \in ServerIds |-> 60]
  /\ proc = [p \in Procs |-> Idle]
  /\ cond = [s \in ServerIds |-> [k \in Kinds |-> "untracked"]]
  /\ undelivered = {}

NextStale ==
  \/ TickIdle
  \/ \E s \in {1} : PollTick(s)
  \/ \E s \in ServerIds, i \in 1..PollSlots : PollQueryTemp(s, i, {48}, {"unreachable"})
  \/ \E s \in ServerIds, i \in 1..PollSlots : PollQueryFans(s, i, {"unreachable"})
  \/ \E s \in ServerIds, i \in 1..PollSlots : PollStamp(s, i)
  \/ StaleTick
  \/ StaleLoad
  \/ \E p \in Procs : OpRead(p)
  \/ \E p \in Procs : OpCommit(p)
  \/ \E p \in Procs : OpNotify(p)
  \/ \E p \in Procs : OpSend(p, {"ok"})

SpecStale == InitStale /\ [][NextStale]_vars

\* the poll cycles of one server with two of the checks of _check_alerts,
\* each query with every outcome, with and without a notification channel
CfgChecks == [k \in {"connectivity", "memory_errors", "power_failure"} |-> TRUE]

InitChecks == InitWith({CfgChecks}, {{}, {1}}, <<>>, <<>>, "untracked")

NextChecks ==
  \/ TickIdle
  \/ \E s \in ServerIds : PollTick(s)
  \/ \E s \in ServerIds, i \in 1..PollSlots : PollQueryTemp(s, i, {48}, {"unreachable"})
  \/ \E s \in ServerIds, i \in 1..PollSlots : PollQueryFans(s, i, {"unreachable"})
  \/ \E s \in ServerIds, i \in 1..PollSlots : PollQueryCheck(s, i, CheckResults)
  \/ \E s \in ServerIds, i \in 1..PollSlots : PollStamp(s, i)
  \/ \E p \in PollProcs : OpRead(p)
  \/ \E p \in PollProcs : OpCommit(p)
  \/ \E p \in PollProcs : OpNotify(p)
  \/ \E p \in PollProcs : OpSend(p, {"ok"})

SpecChecks == InitChecks /\ [][NextChecks]_vars

\* poll cycles and staleness runs of a server without an alert map, or with
\* a map that enables memory_errors alone
CfgOff ==
  [k \in {"connectivity", "temperature_critical", "memory_errors", "power_failure"} |->
     k = "memory_errors"]

InitKinds == InitWith({CfgNone, CfgOff}, {{1}}, Zones3, <<>>, "untracked")

NextKinds ==
  \/ TickIdle
  \/ \E s \in ServerIds : PollTick(s)
  \/ \E s \in ServerIds, i \in 1..PollSlots : PollQueryTemp(s, i, {48, 85}, QueryFailures)
  \/ \E s \in ServerIds, i \in 1..PollSlots : PollQueryFans(s, i, QueryFailures)
  \/ \E s \in ServerIds, i \in 1..PollSlots : PollSetBase(s, i, QueryFailures)
  \/ \E s \in ServerIds, i \in 1..PollSlots : PollQueryCheck(s, i, CheckResults)
  \/ \E s \in ServerIds, i \in 1..PollSlots : PollStamp(s, i)
  \/ StaleTick
  \/ StaleLoad
  \/ \E p \in Procs : OpRead(p)
  \/ \E p \in Procs : OpCommit(p)
  \/ \E p \in Procs : OpNotify(p)
  \/ \E p \in Procs : OpSend(p, {"ok"})

SpecKinds == InitKinds /\ [][NextKinds]_vars

\* configuration updates of a server with two enabled kinds, which a new
\* map keeps, omits or sets to false, beside its poll cycles
CfgTwo == [k \in {"connectivity", "temperature_critical"} |-> TRUE]
CfgTempOff == [k \in {"connectivity", "temperature_critical"} |-> k = "connectivity"]

InitUpdate == InitWith({CfgTwo}, {{1}}, <<>>, <<>>, "untracked")

NextUpdate ==
  \/ \E s \in ServerIds : PollTick(s)
  \/ \E s \in ServerIds, i \in 1..PollSlots : PollQueryTemp(s, i, {85}, {"unreachable"})
  \/ \E s \in ServerIds, i \in 1..PollSlots : PollQueryFans(s, i, {"unreachable"})
  \/ \E s \in ServerIds, i \in 1..PollSlots : PollStamp(s, i)
  \/ \E s \in ServerIds, cfg \in {CfgTwo, CfgConn, CfgTempOff, CfgNone}, n \in {60} :
       UpdateServer(s, cfg, n)
  \/ UpdateCommit
  \/ \E p \in Procs : OpRead(p)
  \/ \E p \in Procs : OpCommit(p)
  \/ \E p \in Procs : OpNotify(p)
  \/ \E p \in Procs : OpSend(p, {"ok"})

SpecUpdate == InitUpdate /\ [][NextUpdate]_vars

\* creation, update and removal of servers, two requests at a time, beside
\* the poll cycles of the first server while its BMC is unreachable
InitCrud == InitWith({CfgConn}, {{1}}, <<>>, <<>>, "untracked")

NextCrud ==
  \/ \E s \in {1} : PollTick(s)
  \/ \E s \in ServerIds, i \in 1..PollSlots : PollQueryTemp(s, i, {}, {"unreachable"})
  \/ \E s \in ServerIds : CreateServer(s, CfgConn, {1}, 0)
  \/ CreateCommit
  \/ \E s \in ServerIds : DeleteServer(s)
  \/ DeleteLoad
  \/ DeleteCommit
  \/ \E s \in ServerIds : UpdateServer(s, CfgConn, 120)
  \/ UpdateCommit
  \/ \E p \in Procs : OpRead(p)
  \/ \E p \in Procs : OpCommit(p)
  \/ \E p \in Procs : OpNotify(p)
  \/ \E p \in Procs : OpSend(p, {"ok"})

SpecCrud == InitCrud /\ [][NextCrud]_vars

\* the dispatch of the connectivity notifications of one server over two
\* channels: the first of any kind, the second enabled or not, referenced or
\* not, every delivery succeeding or failing
Telegram == [enabled |-> TRUE, type |-> "telegram", chat_id |-> TRUE]
NoChatId == [enabled |-> TRUE, type |-> "telegram", chat_id |-> FALSE]
Pager == [enabled |-> TRUE, type |-> "pager", chat_id |-> FALSE]
SlackOff == [enabled |-> FALSE, type |-> "slack", chat_id |-> FALSE]

InitNotify ==
  /\ now = 0
  /\ \E ch \in {{1}, {1, 2}} :
       servers = [s \in ServerIds |->
                    IF s = 1 THEN InitServer(s, CfgConn, ch, 1, <<>>, <<>>)
                    ELSE NoServer]
  /\ \E c1 \in {Slack, Telegram, NoChatId, Pager, SlackOff}, c2 \in {Slack, SlackOff} :
       channels = [c \in ChannelIds |-> IF c = 1 THEN c1 ELSE c2]
  /\ alerts = {}
  /\ jobs = [s \in ServerIds |-> IF s = 1 THEN 60 ELSE None]
  /\ proc = [p \in Procs |-> Idle]
  /\ cond = [s \in ServerIds |-> [k \in Kinds |-> "untracked"]]
  /\ undelivered = {}

NextNotify ==
  \/ \E s \in ServerIds : PollTick(s)
  \/ \E s \in ServerIds, i \in 1..PollSlots : PollQueryTemp(s, i, {48}, {"unreachable"})
  \/ \E s \in ServerIds, i \in 1..PollSlots : PollQueryFans(s, i, {"unreachable"})
  \/ \E s \in ServerIds, i \in 1..PollSlots : PollStamp(s, i)
  \/ \E p \in PollProcs : OpRead(p)
  \/ \E p \in PollProcs : OpCommit(p)
  \/ \E p \in PollProcs : OpNotify(p)
  \/ \E p \in PollProcs : OpSend(p, DeliveryOutcomes)

SpecNotify == InitNotify /\ [][NextNotify]_vars

\* the fan curve: two servers with the same zone table, polled side by side
\* at every temperature around the thresholds
ZonesUnsorted == <<Zones3[3], Zones3[1], Zones3[2]>>
ZonesOne == <<Zones3[1]>>
ZonesFullLow == <<[temp_threshold |-> 50, target_rpm |-> 0],
                  [temp_threshold |-> 70, target_rpm |-> 5000]>>
ZonesFullHigh == <<[temp_threshold |-> 50, target_rpm |-> 1800],
                   [temp_threshold |-> 70, target_rpm |-> 0]>>
ZonesTie == <<[temp_threshold |-> 50, target_rpm |-> 1800],
              [temp_threshold |-> 50, target_rpm |-> 3500],
              [temp_threshold |-> 70, target_rpm |-> 5000]>>
ZonesDown == <<[temp_threshold |-> 70, target_rpm |-> 1800],
               [temp_threshold |-> 50, target_rpm |-> 5000]>>
ZoneTables == {Zones3, ZonesUnsorted, ZonesOne, ZonesFullLow, ZonesFullHigh,
               ZonesTie, ZonesDown}
CurveTemps == {48, 50, 51, 52, 60, 70, 71, 75}

InitCurve ==
  /\ now = 0
  /\ \E zones \in ZoneTables :
       servers = [s \in ServerIds |-> InitServer(s, CfgNone, {}, 1, zones, <<>>)]
  /\ channels = [c \in ChannelIds |-> Slack]
  /\ alerts = {}
  /\ jobs = [s \in ServerIds |-> 60]
  /\ proc = [p \in Procs |-> Idle]
  /\ cond = [s \in ServerIds |-> [k \in Kinds |-> "untracked"]]
  /\ undelivered = {}

NextCurve ==
  \/ \E s \in ServerIds : PollTick(s)
  \/ \E s \in ServerIds, i \in 1..PollSlots : PollQueryTemp(s, i, CurveTemps, {})
  \/ \E s \in ServerIds, i \in 1..PollSlots : PollQueryFans(s, i, {})
  \/ \E s \in ServerIds, i \in 1..PollSlots : PollSetBase(s, i, {})
  \/ \E s \in ServerIds, i \in 1..PollSlots : PollStamp(s, i)

SpecCurve == InitCurve /\ [][NextCurve]_vars

\* the poll cycles of one server whose ipmitool calls may never return; the
\* event loop runs every coroutine that can continue
InitHang == InitWith({CfgConn}, {{}, {1}}, Zones3, Override1, "untracked")

ProgressHang ==
  \/ \E s \in ServerIds : PollTick(s)
  \/ \E s \in ServerIds, i \in 1..PollSlots : PollQueryTemp(s, i, {48}, {"unreachable"})
  \/ \E s \in ServerIds, i \in 1..PollSlots : PollQueryFans(s, i, {"unreachable"})
  \/ \E s \in ServerIds, i \in 1..PollSlots : PollSetBase(s, i, {"unreachable"})
  \/ \E s \in ServerIds, i \in 1..PollSlots : PollOverride(s, i, {"unreachable"})
  \/ \E s \in ServerIds, i \in 1..PollSlots : PollStamp(s, i)
  \/ \E p \in PollProcs : OpRead(p)
  \/ \E p \in PollProcs : OpCommit(p)
  \/ \E p \in PollProcs : OpNotify(p)
  \/ \E p \in PollProcs : OpSend(p, {"ok"})

NextHang ==
  \/ ProgressHang
  \/ \E s \in ServerIds, i \in 1..PollSlots : PollHang(s, i)

SpecHang == InitHang /\ [][NextHang]_vars /\ WF_vars(ProgressHang)

\* the same cycles when every call returns
SpecReturns == InitHang /\ [][ProgressHang]_vars /\ WF_vars(ProgressHang)

\* fan control: the cycles of one server of any vendor, with or without
\* zones, with overrides that have or lack a min_rpm
OverrideInert == <<[fan_identifier |-> "FAN1", min_rpm |-> None]>>
OverrideMixed == <<[fan_identifier |-> "FAN1", min_rpm |-> None],
                   [fan_identifier |-> "FAN2", min_rpm |-> 1200],
                   [fan_identifier |-> "FAN3", min_rpm |-> 0]>>
OverrideSets == {<<>>, Override1, OverrideInert, OverrideMixed}
Vendors == {"supermicro", "Supermicro", "dell", "hp", "ibm"}
FanZoneTables == {<<>>, ZonesOne, Zones3, ZonesUnsorted}
FanTemps == {None, 48, 52, 53, 85}

InitFan ==
  /\ now = 0
  /\ \E v \in Vendors, zones \in FanZoneTables, ov \in OverrideSets,
        cfg \in {CfgNone, CfgConn} :
       servers = [s \in ServerIds |->
                    IF s = 1
                    THEN [InitServer(s, cfg, {1}, 1, zones, ov) EXCEPT !.vendor = v]
                    ELSE NoServer]
  /\ channels = [c \in ChannelIds |-> Slack]
  /\ alerts = {}
  /\ jobs = [s \in ServerIds |-> IF s = 1 THEN 60 ELSE None]
  /\ proc = [p \in Procs |-> Idle]
  /\ cond = [s \in ServerIds |-> [k \in Kinds |-> "untracked"]]
  /\ undelivered = {}

NextFan ==
  \/ \E s \in ServerIds : PollTick(s)
  \/ \E s \in ServerIds, i \in 1..PollSlots : PollQueryTemp(s, i, FanTemps, {})
  \/ \E s \in ServerIds, i \in 1..PollSlots : PollQueryFans(s, i, {})
  \/ \E s \in ServerIds, i \in 1..PollSlots : PollSetBase(s, i, {"unreachable"})
  \/ \E s \in ServerIds, i \in 1..PollSlots : PollOverride(s, i, {"unreachable"})
  \/ \E s \in ServerIds, i \in 1..PollSlots : PollStamp(s, i)
  \/ \E p \in PollProcs : OpRead(p)
  \/ \E p \in PollProcs : OpCommit(p)
  \/ \E p \in PollProcs : OpNotify(p)
  \/ \E p \in PollProcs : OpSend(p, {"ok"})

SpecFan == InitFan /\ [][NextFan]_vars

\* the speed byte: one cycle of a server whose zones ask for r rpm and whose
\* override asks for r+1 rpm, for every r of 0..MaxRpm
InitByte ==
  /\ now = 0
  /\ \E r \in 0..MaxRpm :
       servers = [s \in ServerIds |->
                    IF s = 1
                    THEN InitServer(s, CfgNone, {}, 1,
                                    <<[temp_threshold |-> 50, target_rpm |-> r],
                                      [temp_threshold |-> 60, target_rpm |-> r]>>,
                                    <<[fan_identifier |-> "FAN1", min_rpm |-> r + 1]>>)
                    ELSE NoServer]
  /\ channels = [c \in ChannelIds |-> Slack]
  /\ alerts = {}
  /\ jobs = [s \in ServerIds |-> IF s = 1 THEN 60 ELSE None]
  /\ proc = [p \in Procs |-> Idle]
  /\ cond = [s \in ServerIds |-> [k \in Kinds |-> "untracked"]]
  /\ undelivered = {}

NextByte ==
  \/ \E s \in ServerIds : PollTick(s)
  \/ \E s \in ServerIds, i \in 1..PollSlots : PollQueryTemp(s, i, {48}, {})
  \/ \E s \in ServerIds, i \in 1..PollSlots : PollQueryFans(s, i, {})
  \/ \E s \in ServerIds, i \in 1..PollSlots : PollSetBase(s, i, {})
  \/ \E s \in ServerIds, i \in 1..PollSlots : PollOverride(s, i, {})
  \/ \E s \in ServerIds, i \in 1..PollSlots : PollStamp(s, i)

SpecByte == InitByte /\ [][NextByte]_vars

\* the temperature of the cycles of one server: not parsed, below and above
\* the critical threshold, with the critical temperature alert and one check
\* of _check_alerts enabled
InitTemp == InitWith({CfgPoll}, {{}, {1}}, Zones3, <<>>, "untracked")

NextTemp ==
  \/ \E s \in ServerIds : PollTick(s)
  \/ \E s \in ServerIds, i \in 1..PollSlots : PollQueryTemp(s, i, TempReadings, {})
  \/ \E s \in ServerIds, i \in 1..PollSlots : PollQueryFans(s, i, {})
  \/ \E s \in ServerIds, i \in 1..PollSlots : PollSetBase(s, i, {"unreachable"})
  \/ \E s \in ServerIds, i \in 1..PollSlots : PollQueryCheck(s, i, {"present", "absent"})
  \/ \E s \in ServerIds, i \in 1..PollSlots : PollStamp(s, i)
  \/ \E p \in PollProcs : OpRead(p)
  \/ \E p \in PollProcs : OpCommit(p)
  \/ \E p \in PollProcs : OpNotify(p)
  \/ \E p \in PollProcs : OpSend(p, {"ok"})

SpecTemp == InitTemp /\ [][NextTemp]_vars

\* the poll job of one server beside the staleness monitor, the outcome of
\* the last poll observed; the poll interval and the offline threshold are
\* one minute both
InitOffline == InitWith({CfgConn}, {{1}}, <<>>, <<>>, "unknown")

NextOffline ==
  \/ TickIdle
  \/ \E s \in ServerIds : PollTick(s)
  \/ \E s \in ServerIds, i \in 1..PollSlots : PollQueryTemp(s, i, {48}, {"unreachable"})
  \/ \E s \in ServerIds, i \in 1..PollSlots : PollQueryFans(s, i, {})
  \/ \E s \in ServerIds, i \in 1..PollSlots : PollStamp(s, i)
  \/ StaleTick
  \/ StaleLoad
  \/ \E p \in Procs : OpRead(p)
  \/ \E p \in Procs : OpCommit(p)
  \/ \E p \in Procs : OpNotify(p)
  \/ \E p \in Procs : OpSend(p, {"ok"})

SpecOffline == InitOffline /\ [][NextOffline]_vars

\* the same when no poll fails
NextHealthy ==
  \/ TickIdle
  \/ \E s \in ServerIds : PollTick(s)
  \/ \E s \in ServerIds, i \in 1..PollSlots : PollQueryTemp(s, i, {48}, {})
  \/ \E s \in ServerIds, i \in 1..PollSlots : PollQueryFans(s, i, {})
  \/ \E s \in ServerIds, i \in 1..PollSlots : PollStamp(s, i)
  \/ StaleTick
  \/ StaleLoad
  \/ \E p \in Procs : OpRead(p)
  \/ \E p \in Procs : OpCommit(p)
  \/ \E p \in Procs : OpNotify(p)
  \/ \E p \in Procs : OpSend(p, {"ok"})

SpecHealthy == InitOffline /\ [][NextHealthy]_vars

\* the poll cycles of a server of a vendor with or without fan commands,
\* with zones, beside the manual clears of the operator
InitVendor ==
  /\ now = 0
  /\ \E v \in {"supermicro", "dell", "ibm"} :
       servers = [s \in ServerIds |->
                    IF s = 1
                    THEN [InitServer(s, CfgPoll, {1}, 1, Zones3, <<>>) EXCEPT !.vendor = v]
                    ELSE NoServer]
  /\ channels = [c \in ChannelIds |-> Slack]
  /\ alerts = {}
  /\ jobs = [s \in ServerIds |-> IF s = 1 THEN 60 ELSE None]
  /\ proc = [p \in Procs |-> Idle]
  /\ cond = [s \in ServerIds |-> [k \in Kinds |-> "untracked"]]
  /\ undelivered = {}

NextVendor ==
  \/ \E s \in ServerIds : PollTick(s)
  \/ \E s \in ServerIds, i \in 1..PollSlots : PollQueryTemp(s, i, {48, 85}, {})
  \/ \E s \in ServerIds, i \in 1..PollSlots : PollQueryFans(s, i, {})
  \/ \E s \in ServerIds, i \in 1..PollSlots : PollSetBase(s, i, {})
  \/ \E s \in ServerIds, i \in 1..PollSlots : PollQueryCheck(s, i, {"absent"})
  \/ \E s \in ServerIds, i \in 1..PollSlots : PollStamp(s, i)
  \/ \E s \in ServerIds, k \in {"connectivity"} : ManualClear(s, k)
  \/ ApiCommit
  \/ \E p \in Procs : OpRead(p)
  \/ \E p \in Procs : OpCommit(p)
  \/ \E p \in Procs : OpNotify(p)
  \/ \E p \in Procs : OpSend(p, {"ok"})

SpecVendor == InitVendor /\ [][NextVendor]_vars

\* whole poll cycles of a server with zones, an override and two channels:
\* fan commands, checks, alert transitions and their deliveries
InitOrder == InitWith({CfgPoll}, {{1, 2}}, Zones3, Override1, "untracked")

NextOrder ==
  \/ \E s \in ServerIds : PollTick(s)
  \/ \E s \in ServerIds, i \in 1..PollSlots : PollQueryTemp(s, i, {48, 85}, {"unreachable"})
  \/ \E s \in ServerIds, i \in 1..PollSlots : PollQueryFans(s, i, {})
  \/ \E s \in ServerIds, i \in 1..PollSlots : PollSetBase(s, i, {})
  \/ \E s \in ServerIds, i \in 1..PollSlots : PollOverride(s, i, {})
  \/ \E s \in ServerIds, i \in 1..PollSlots : PollQueryCheck(s, i, {"present", "absent"})
  \/ \E s \in ServerIds, i \in 1..PollSlots : PollStamp(s, i)
  \/ \E p \in PollProcs : OpRead(p)
  \/ \E p \in PollProcs : OpCommit(p)
  \/ \E p \in PollProcs : OpNotify(p)
  \/ \E p \in PollProcs : OpSend(p, DeliveryOutcomes)

SpecOrder == InitOrder /\ [][NextOrder]_vars

\* ------------------------------------------------------------- typing
TypeOK ==
  /\ now \in 0..MaxTime
  /\ \A r \in alerts : r.server \in ServerIds /\ r.kind \in Kinds
  /\ \A p \in Procs : proc[p].pc \in
       {"idle", "load", "q_temp", "q_fans", "set_base", "override", "q_check",
        "stamp", "op_read", "op_commit", "op_notify", "op_send", "upd_commit",
        "del_load", "del_commit", "create_commit", "hung", "api_commit"}

\* ---------------------------------------------------------- properties
\* the rows of a table A that are live for the pair
LiveIn(A, s, k) == {r \in A : r.server = s /\ r.kind = k /\ r.cleared_at = None}

\* C1: in every reachable state each (server, alert type) pair has at most one
\* row of active_alerts whose cleared_at is null
C1_AtMostOneLive ==
  \A s \in ServerIds, k \in Kinds : Cardinality(LiveIn(alerts, s, k)) <= 1

\* a writer that saw no live row is about to insert while another writer's
\* live row for the pair is already there
C1_Witness ==
  \E p \in Procs :
     /\ proc[p].pc = "op_commit" /\ proc[p].op.type = "activate" /\ proc[p].op.seq = 0
     /\ LiveIn(alerts, proc[p].srv.id, proc[p].op.kind) # {}

\* C7: at no time are two cycles of the poll job of one server in flight
C7_NoOverlappingCycles ==
  \A s \in ServerIds :
     Cardinality({i \in 1..PollSlots : proc[PollOf(s, i)].pc # "idle"}) <= 1

\* a cycle is in flight and an update has replaced the timer of its server
\* since the cycle loaded the server
C7_Witness ==
  \E s \in ServerIds, i \in 1..PollSlots :
     /\ proc[PollOf(s, i)].pc # "idle"
     /\ jobs[s] # proc[PollOf(s, i)].srv.poll_interval_seconds

OpPcs == {"op_read", "op_commit", "op_notify", "op_send"}

\* the step is one of process p
Stepped(p) == proc'[p] # proc[p]

\* the step ends the store call process p is in
OpEnds(p) ==
  /\ proc[p].pc \in OpPcs /\ Stepped(p)
  /\ ~(proc[p].pc = "op_read" /\ proc'[p].pc = "op_commit")
  /\ ~(proc[p].pc = "op_commit" /\ proc'[p].pc = "op_notify")
  /\ ~(proc[p].pc \in {"op_notify", "op_send"} /\ proc'[p].pc = "op_send")

HasEnabledChannel(server) ==
  \E c \in server.notification_channel_ids \cap ChannelIds : channels[c].enabled

\* the step is one of the dispatch of the notification of p's store call
Dispatches(p) ==
  /\ proc[p].pc \in {"op_notify", "op_send"}
  /\ Stepped(p) /\ HasEnabledChannel(proc[p].srv)

\* the step ends a cycle of the poll job
PollEnds(p) == proc[p].pc # "idle" /\ proc'[p].pc = "idle"

\* C2: for a server with an enabled channel, the store call a cycle makes for
\* a kind dispatches a notification exactly when the condition of that kind
\* differs from the one of the previous cycle (absent before the first cycle)
C2_OneNotificationPerChange ==
  [][\A p \in PollProcs :
       (OpEnds(p) /\ HasEnabledChannel(proc[p].srv)) =>
          LET cur == IF proc[p].op.type = "activate" THEN "present" ELSE "absent"
              prev == IF proc[p].op.prev = "present" THEN "present" ELSE "absent"
          IN Dispatches(p) <=> (prev # cur)]_vars

\* C3: activate on a pair that has a cleared row and no live row inserts a
\* live row and goes on to dispatch the activation notification
C3_RaiseAgainAfterClear ==
  [][\A p \in Procs :
       (proc[p].pc = "op_commit" /\ Stepped(p) /\ proc[p].op.type = "activate"
        /\ proc[p].op.pre = "cleared") =>
          /\ LiveIn(alerts', proc[p].srv.id, proc[p].op.kind) # {}
          /\ proc'[p].pc = "op_notify"]_vars

\* C4: the second of two activate calls of consecutive cycles for a pair (no
\* clear between them) leaves exactly one live row, with the first_triggered_at
\* and the message it had and the last_updated_at of the second call, and
\* dispatches nothing
C4_ActivateIdempotent ==
  [][\A p \in PollProcs :
       (OpEnds(p) /\ proc[p].op.type = "activate" /\ proc[p].op.prev = "present") =>
          /\ proc[p].pc \notin {"op_notify", "op_send"}
          /\ Cardinality(LiveIn(alerts', proc[p].srv.id, proc[p].op.kind)) = 1
          /\ \E r \in LiveIn(alerts, proc[p].srv.id, proc[p].op.kind),
                r2 \in LiveIn(alerts', proc[p].srv.id, proc[p].op.kind) :
                /\ r2.first_triggered_at = r.first_triggered_at
                /\ r2.message = r.message
                /\ r2.last_updated_at = proc[p].op.ts]_vars

\* C5: clear_if_active on a pair without a live row changes no row and ends
\* without a dispatch; on a pair with a live row it sets cleared_at and
\* cleared_by of that row, changes no other row, and goes on to dispatch the
\* cleared notification
C5_ClearIfActive ==
  [][\A p \in Procs :
       (Stepped(p) /\ proc[p].pc \in OpPcs /\ proc[p].op.type = "clear") =>
          LET pr == proc[p]
              live == LiveIn(alerts, pr.srv.id, pr.op.kind)
          IN /\ (pr.pc = "op_read" /\ pr.sessOk /\ live = {}) =>
                   /\ alerts' = alerts
                   /\ proc'[p].pc \notin {"op_commit", "op_notify"}
             /\ (pr.pc = "op_read" /\ pr.sessOk /\ live # {}) =>
                   /\ alerts' = alerts
                   /\ proc'[p].pc = "op_commit"
                   /\ proc'[p].op.seq \in {r.seq : r \in live}
             /\ (pr.pc = "op_commit") =>
                   \E r \in alerts :
                      /\ r.server = pr.srv.id /\ r.kind = pr.op.kind
                      /\ r.seq = pr.op.seq
                      /\ alerts' = (alerts \ {r}) \cup
                            {[r EXCEPT !.cleared_at = pr.op.ts,
                                       !.cleared_by = pr.op.by,
                                       !.last_updated_at = pr.op.ts]}
                      /\ proc'[p].pc = "op_notify"
             /\ (pr.pc \in {"op_notify", "op_send"}) => alerts' = alerts]_vars

\* a clear has stamped the row it found live and is about to dispatch
C5_Witness ==
  \E p \in Procs, r \in alerts :
     /\ proc[p].pc = "op_notify" /\ proc[p].op.type = "clear"
     /\ r.server = proc[p].srv.id /\ r.kind = proc[p].op.kind
     /\ r.seq = proc[p].op.seq
     /\ r.cleared_at = proc[p].op.ts /\ r.cleared_by = proc[p].op.by

\* the step is one in which the store call of process p raises
OpRaises(p) ==
  LET pr == proc[p] IN
  /\ Stepped(p)
  /\ \/ pr.pc = "op_read"
        /\ (~pr.sessOk \/ Cardinality(LiveIn(alerts, pr.srv.id, pr.op.kind)) > 1)
     \/ pr.pc = "op_commit" /\ pr.op.seq = 0 /\ proc'[p].pc # "op_notify"
     \/ pr.pc = "op_commit" /\ pr.op.seq # 0
        /\ ~\E r \in alerts : r.server = pr.srv.id /\ r.kind = pr.op.kind
                              /\ r.seq = pr.op.seq

\* a staleness activate and a poll success-clear of the connectivity pair of
\* server s are both in flight
Racing(s, q) ==
  /\ proc[StaleProc].pc \in OpPcs /\ proc[StaleProc].srv.id = s
  /\ proc[StaleProc].op.type = "activate"
  /\ proc[StaleProc].op.kind = "connectivity"
  /\ proc[q].pc \in OpPcs /\ proc[q].srv.id = s
  /\ proc[q].op.type = "clear" /\ proc[q].op.kind = "connectivity"

\* C6: while the activate of the staleness monitor and the clear of a
\* successful poll race on one connectivity pair, neither call raises and the
\* pair keeps at most one live row, as after either serial order
C6_RaceSerializable ==
  [][\A s \in ServerIds, q \in PollProcs :
       Racing(s, q) =>
          /\ ~OpRaises(StaleProc)
          /\ ~OpRaises(q)
          /\ Cardinality(LiveIn(alerts', s, "connectivity")) <= 1]_vars

\* C8: a cycle whose temperature or fan query failed sent no fan command, ran
\* no other check, left last_successful_poll alone and, connectivity being
\* enabled, ends with a live connectivity row
C8_CoreQueryFailure ==
  [][\A s \in ServerIds, i \in 1..PollSlots :
       LET p == PollOf(s, i)
           pr == proc[p]
       IN (PollEnds(p) /\ pr.failed \in {"temp_query", "fan_query"}) =>
             /\ pr.cmds = <<>>
             /\ pr.checked = {}
             /\ ~pr.stamped
             /\ servers'[s].last_successful_poll = pr.srv.last_successful_poll
             /\ IsAlertEnabled(pr.srv, "connectivity") =>
                   LiveIn(alerts', s, "connectivity") # {}]_vars

\* C9: a cycle whose temperature query, fan query and fan commands all
\* succeeded ends with last_successful_poll set to the time of the cycle and
\* with no live connectivity row, a row it cleared carrying the actor auto
C9_SuccessfulCycle ==
  [][\A s \in ServerIds, i \in 1..PollSlots :
       LET p == PollOf(s, i)
           pr == proc[p]
       IN (/\ PollEnds(p)
           /\ pr.pc \notin {"q_temp", "q_fans", "set_base", "override"}
           /\ pr.failed \notin {"temp_query", "fan_query", "fan_cmd"}) =>
             /\ pr.stamped
             /\ servers'[s].last_successful_poll = now
             /\ LiveIn(alerts', s, "connectivity") = {}
             /\ (pr.pc \in {"op_notify", "op_send"} /\ pr.op.type = "clear") =>
                   \A r \in alerts' :
                      (r.server = s /\ r.kind = "connectivity"
                       /\ r.seq = pr.op.seq) => r.cleared_by = "auto"]_vars

\* the step ends a run of the staleness monitor
StaleEnds == proc[StaleProc].pc # "idle" /\ proc'[StaleProc].pc = "idle"

\* C10: after a run of the staleness monitor, every server with connectivity
\* enabled and a notification channel has a live connectivity row exactly when
\* the time since its last successful poll (its creation, if never polled) has
\* reached its threshold (15 minutes by default)
C10_StalenessVerdict ==
  [][StaleEnds =>
       \A s \in ServerIds :
          LET server == servers'[s]
              since == IF server.last_successful_poll = None
                       THEN server.created_at
                       ELSE server.last_successful_poll
              threshold == IF server.offline_alert_threshold_minutes = 0
                           THEN DefaultThreshold
                           ELSE server.offline_alert_threshold_minutes
          IN (/\ server.exists
              /\ IsAlertEnabled(server, "connectivity")
              /\ server.notification_channel_ids # {}) =>
                ((now' - since >= threshold)
                   <=> (LiveIn(alerts', s, "connectivity") # {}))]_vars

\* the rows of a table A that belong to server s
RowsIn(A, s) == {r \in A : r.server = s}

\* C11: a run of the staleness monitor changes no alert row and starts no
\* store call or dispatch for a server (as the run loaded it) whose
\* connectivity alerting is disabled or that has no notification channel
C11_UnmonitoredUntouched ==
  [][Stepped(StaleProc) =>
       \A j \in 1..Len(proc[StaleProc].snaps) :
          LET server == proc[StaleProc].snaps[j] IN
          (~IsAlertEnabled(server, "connectivity")
             \/ server.notification_channel_ids = {}) =>
               /\ RowsIn(alerts', server.id) = RowsIn(alerts, server.id)
               /\ ~(proc[StaleProc].pc \in OpPcs /\ proc[StaleProc].srv.id = server.id)
               /\ ~(proc'[StaleProc].pc \in OpPcs /\ proc'[StaleProc].srv.id = server.id)]_vars

\* the run has passed a server that is without connectivity alerting or
\* channel and past its threshold, and is in a store call for the next one
C11_Witness ==
  LET pr == proc[StaleProc] IN
  /\ pr.pc \in OpPcs /\ pr.idx = 2
  /\ ~IsAlertEnabled(pr.snaps[1], "connectivity") \/ pr.snaps[1].notification_channel_ids = {}
  /\ pr.now0 - pr.snaps[1].created_at >= pr.snaps[1].offline_alert_threshold_minutes
  /\ pr.snaps[1].last_successful_poll = None

\* the staleness monitor has a verdict to store for the server at time t
NeedsVerdict(server, t) ==
  /\ IsAlertEnabled(server, "connectivity")
  /\ server.notification_channel_ids # {}
  /\ \/ server.last_successful_poll # None
     \/ t - server.created_at >=
          (IF server.offline_alert_threshold_minutes = 0 THEN DefaultThreshold
           ELSE server.offline_alert_threshold_minutes)

\* C20: a run of the staleness monitor ends only when no server after the
\* one it is at has a verdict left to store, whatever happened to the store
\* call or the dispatch of the servers before
C20_RunReachesEveryServer ==
  [][(StaleEnds /\ proc[StaleProc].pc \in OpPcs) =>
       \A j \in (proc[StaleProc].idx + 1)..Len(proc[StaleProc].snaps) :
          ~NeedsVerdict(proc[StaleProc].snaps[j], proc[StaleProc].now0)]_vars

\* the cycle of process p got past its temperature query, fan query and fan
\* commands
CoreSucceeded(pr) ==
  /\ pr.pc \notin {"q_temp", "q_fans", "set_base", "override"}
  /\ pr.failed \notin {"temp_query", "fan_query", "fan_cmd"}

QueryFailed(pr) ==
  {k \in DOMAIN pr.found : pr.found[k] \in {"ipmi_fail", "other_fail"}}

\* C12: a failed query of a check activates no alert of its kind and does not
\* fail the cycle; a cycle in which such a query failed still runs every
\* enabled check and ends stamped and without a live connectivity row
C12_CheckQueryFailure ==
  [][\A s \in ServerIds, i \in 1..PollSlots :
       LET p == PollOf(s, i)
           pr == proc[p]
       IN /\ (pr.pc = "q_check" /\ Stepped(p)
              /\ CheckOrder[pr.chk] \in QueryFailed(proc'[p])) =>
                /\ ~(proc'[p].pc = "op_read" /\ proc'[p].op.type = "activate"
                     /\ proc'[p].op.kind = CheckOrder[pr.chk])
                /\ proc'[p].failed = pr.failed
          /\ (PollEnds(p) /\ QueryFailed(pr) # {}) =>
                /\ \A j \in 1..Len(CheckOrder) :
                      IsAlertEnabled(pr.srv, CheckOrder[j]) => CheckOrder[j] \in pr.checked
                /\ pr.stamped
                /\ LiveIn(alerts', s, "connectivity") = {}]_vars

\* C13: no process of the poll job or of the staleness monitor is at the
\* query of a check, in a store call or in a dispatch for a kind that the
\* alert map of the server it loaded does not enable
C13_DisabledKindSkipped ==
  \A p \in PollProcs \cup {StaleProc} :
     \A k \in Kinds :
        ~(k \in DOMAIN proc[p].srv.alert_config /\ proc[p].srv.alert_config[k]) =>
           /\ ~(proc[p].pc = "q_check" /\ CheckOrder[proc[p].chk] = k)
           /\ ~(proc[p].pc \in OpPcs /\ proc[p].op.kind = k)
           /\ k \notin proc[p].checked

\* a cycle has read a critical temperature and run its checks, and only the
\* one kind its map enables was checked
C13_Witness ==
  \E p \in PollProcs :
     /\ proc[p].pc = "stamp" /\ proc[p].cpu >= CriticalTemp
     /\ proc[p].checked = {"memory_errors"}
     /\ proc[p].srv.alert_config = CfgOff

\* C14: a cycle whose core queries succeeded has run the check of every
\* enabled kind (temperature_critical when a temperature was read), and ends
\* with a live row for each kind whose condition it found present
C14_EveryEnabledCheckStored ==
  [][\A s \in ServerIds, i \in 1..PollSlots :
       LET p == PollOf(s, i)
           pr == proc[p]
       IN (PollEnds(p) /\ CoreSucceeded(pr)) =>
             \A k \in Kinds \ {"connectivity"} :
                IsAlertEnabled(pr.srv, k) =>
                   /\ (k = "temperature_critical" /\ pr.cpu = None) \/ k \in pr.checked
                   /\ (k \in DOMAIN pr.found /\ pr.found[k] = "present") =>
                         LiveIn(alerts', s, k) # {}]_vars

\* the kinds of a sequence
Range(q) == {q[i] : i \in 1..Len(q)}

\* C15: an update calls clear with actor manual once for each kind that its
\* old map enables and its new map does not (set to false or omitted), the
\* call stamps the live row it finds, and no step of the update changes a row
\* of a kind that the new map enables
C15_DisabledKindsCleared ==
  [][Stepped(ApiProc) =>
       LET pr == proc[ApiProc]
           nx == proc'[ApiProc]
           starts == pr.pc = "idle" /\ (nx.ret = "upd_next" \/ nx.pc = "upd_commit")
           inUpdate == pr.ret = "upd_next" \/ pr.pc = "upd_commit"
           old == servers[nx.srv.id].alert_config
           new == nx.srv.alert_config
           gone == {k \in Kinds : /\ k \in DOMAIN old /\ old[k]
                                  /\ ~(k \in DOMAIN new /\ new[k])}
           called == IF nx.pc = "op_read" THEN {nx.op.kind} ELSE {}
       IN /\ starts =>
               /\ called \cup Range(nx.todo) = gone
               /\ Cardinality(called) + Len(nx.todo) = Cardinality(gone)
          /\ (starts \/ inUpdate) /\ nx.pc = "op_read" /\ nx.op # pr.op =>
               /\ nx.op.type = "clear" /\ nx.op.by = "manual"
               /\ inUpdate => (nx.op.kind = Head(pr.todo) /\ nx.todo = Tail(pr.todo))
          /\ (inUpdate /\ pr.pc = "op_read"
              /\ LiveIn(alerts, pr.srv.id, pr.op.kind) # {}) => nx.pc = "op_commit"
          /\ (inUpdate /\ pr.pc = "op_commit") =>
               \A r \in RowsIn(alerts', pr.srv.id) :
                  (r.kind = pr.op.kind /\ r.seq = pr.op.seq) =>
                     r.cleared_at # None /\ r.cleared_by = "manual"
          /\ (inUpdate /\ nx.pc = "idle") => pr.pc = "upd_commit" /\ pr.todo = <<>>
          /\ inUpdate =>
               \A k \in Kinds :
                  IsAlertEnabled(pr.srv, k) =>
                     LiveIn(alerts', pr.srv.id, k) = LiveIn(alerts, pr.srv.id, k)]_vars

\* an update has cleared the live row of a kind it disabled, as manual, while
\* a kind it keeps enabled has a live row
C15_Witness ==
  LET pr == proc[ApiProc] IN
  /\ pr.ret = "upd_next" /\ pr.pc \in {"op_notify", "op_send"}
  /\ \E r \in RowsIn(alerts, pr.srv.id) :
        r.kind = pr.op.kind /\ r.seq = pr.op.seq /\ r.cleared_by = "manual"
  /\ \E k \in Kinds : IsAlertEnabled(pr.srv, k) /\ LiveIn(alerts, pr.srv.id, k) # {}

\* the step completes a create, update or delete request of process p
RequestEnds(p) ==
  /\ proc[p].pc \in {"create_commit", "del_load", "del_commit", "upd_commit"}
  /\ proc'[p].pc = "idle"

\* C16: when a create, update or delete request completes and no other
\* request is in flight, a server has a poll timer exactly when it exists, and the interval of the timer is the poll
\* interval of the server (the default when unset)
C16_TimersMatchServers ==
  [][((RequestEnds(ApiProc) \/ RequestEnds(AdminProc))
      /\ proc'[ApiProc].pc = "idle" /\ proc'[AdminProc].pc = "idle") =>
       \A s \in ServerIds :
          /\ (jobs'[s] # None) <=> servers'[s].exists
          /\ servers'[s].exists =>
                jobs'[s] = (IF servers'[s].poll_interval_seconds = 0
                            THEN DefaultPollInterval
                            ELSE servers'[s].poll_interval_seconds)]_vars

\* C17: a step of a poll cycle or of the staleness monitor for a server that
\* has been removed changes no alert row of that server and dispatches nothing
C17_RemovedServerUntouched ==
  [][\A p \in PollProcs \cup {StaleProc} :
       (Stepped(p) /\ proc[p].pc \in OpPcs /\ ~servers[proc[p].srv.id].exists) =>
          /\ RowsIn(alerts', proc[p].srv.id) = RowsIn(alerts, proc[p].srv.id)
          /\ proc'[p].pc # "op_send"]_vars

\* the enabled channels a server references
EnabledChannels(server) ==
  {c \in server.notification_channel_ids \cap ChannelIds : channels[c].enabled}

\* the channels a delivery can be made to: a provider exists for the type,
\* and a telegram channel has its chat identifier
Supported(c) ==
  \/ channels[c].type \in {"slack", "teams", "discord"}
  \/ channels[c].type = "telegram" /\ channels[c].chat_id

\* C18: the dispatch of one transition delivers once to each enabled channel
\* the server references that has a provider, and to no other channel; a
\* failed delivery and a channel without provider or chat identifier leave
\* the deliveries to the other channels and the poll cycle as they are
C18_EveryEnabledChannelOnce ==
  [][\A p \in PollProcs :
       LET pr == proc[p]
           nx == proc'[p]
           targets == {c \in EnabledChannels(pr.srv) : Supported(c)}
           done == Range(pr.sent) \cup {Head(pr.chq)}
       IN /\ (pr.pc = "op_notify" /\ Stepped(p)) =>
               IF nx.pc = "op_send"
               THEN nx.sent = <<>> /\ Head(nx.chq) \in targets
               ELSE targets = {}
          /\ (pr.pc = "op_send" /\ Stepped(p)) =>
               /\ Head(pr.chq) \in targets \ Range(pr.sent)
               /\ IF nx.pc = "op_send"
                  THEN nx.sent = Append(pr.sent, Head(pr.chq))
                       /\ Head(nx.chq) \in targets \ done
                  ELSE done = targets /\ Len(pr.sent) + 1 = Cardinality(targets)
               /\ nx.pc = "idle" \/ nx.failed = pr.failed
               /\ nx.sessOk = pr.sessOk]_vars

\* the delivery to the first channel has failed and the dispatch is at the
\* delivery to the second
C18_Witness ==
  \E p \in PollProcs :
     /\ proc[p].pc = "op_send" /\ Len(proc[p].sent) = 1
     /\ <<proc[p].srv.id, proc[p].op.kind, proc[p].op.type, proc[p].sent[1]>> \in undelivered

\* C19: a store call of a cycle for the condition whose last notification
\* could not be delivered to a channel, the condition being as it was,
\* delivers to that channel again
C19_FailedDeliveryRetried ==
  [][\A p \in PollProcs :
       OpEnds(p) =>
          \A c \in EnabledChannels(proc[p].srv) :
             <<proc[p].srv.id, proc[p].op.kind, proc[p].op.type, c>> \in undelivered =>
                /\ proc[p].pc = "op_send"
                /\ c \in Range(proc[p].sent) \cup {Head(proc[p].chq)}]_vars

\* zone i comes before zone j in threshold order, zones of one threshold in
\* the order of the table
ZoneBefore(zones, i, j) ==
  \/ zones[i].temp_threshold < zones[j].temp_threshold
  \/ zones[i].temp_threshold = zones[j].temp_threshold /\ i < j

\* the r-th zone in threshold order
ZoneAt(zones, r) ==
  zones[CHOOSE i \in 1..Len(zones) :
          Cardinality({j \in 1..Len(zones) : ZoneBefore(zones, j, i)}) = r - 1]

\* the cycle has computed its base target
Computed(pr) == pr.pc \in {"set_base", "override", "stamp"}

\* the rule of the zones: the rpm of the lowest zone when T is at or below
\* its threshold, of zone r when T is above the threshold of zone r-1 and at
\* or below that of zone r, of the highest zone when T is above every
\* threshold; an rpm of 0 is a result like any other
ZoneRule(pr) ==
  LET zones == pr.srv.zones
      n == Len(zones)
      T == pr.cpu
  IN /\ pr.base # None
     /\ T <= ZoneAt(zones, 1).temp_threshold => pr.base = ZoneAt(zones, 1).target_rpm
     /\ \A r \in 2..n :
          (ZoneAt(zones, r - 1).temp_threshold < T /\ T <= ZoneAt(zones, r).temp_threshold)
             => pr.base = ZoneAt(zones, r).target_rpm
     /\ T > ZoneAt(zones, n).temp_threshold => pr.base = ZoneAt(zones, n).target_rpm

\* the cycle has computed the target of a temperature over a non-empty table
Targeted(pr) == Computed(pr) /\ pr.srv.zones # <<>> /\ pr.cpu # None

NonDecreasing(zones) ==
  \A i, j \in 1..Len(zones) :
     ZoneBefore(zones, i, j) => zones[i].target_rpm <= zones[j].target_rpm

\* C23: over a table whose rpms do not decrease in threshold order, the target
\* of a lower temperature is at most the target of a higher one, and every
\* target is the rpm of a zone of the table
C23_TargetMonotone ==
  /\ \A p, q \in PollProcs :
        (/\ Computed(proc[p]) /\ Computed(proc[q])
         /\ proc[p].srv.zones = proc[q].srv.zones
         /\ NonDecreasing(proc[p].srv.zones)
         /\ proc[p].cpu <= proc[q].cpu) => proc[p].base <= proc[q].base
  /\ \A p \in PollProcs :
        (Computed(proc[p]) /\ proc[p].srv.zones # <<>>) =>
           \E j \in 1..Len(proc[p].srv.zones) :
              proc[p].base = proc[p].srv.zones[j].target_rpm

\* two cycles over one table on the two sides of a zone boundary
C23_Witness ==
  \E p, q \in PollProcs :
     /\ Computed(proc[p]) /\ Computed(proc[q])
     /\ proc[p].srv.zones = proc[q].srv.zones /\ NonDecreasing(proc[p].srv.zones)
     /\ proc[p].cpu = 52 /\ proc[q].cpu = 60 /\ proc[p].base < proc[q].base

\* C21: every poll cycle that has started finishes
C21_CycleFinishes ==
  \A p \in PollProcs : (proc[p].pc # "idle") ~> (proc[p].pc = "idle")

\* the overrides that have a fan identifier and a min_rpm
Effective(server) ==
  SelectSeq(server.fan_overrides,
            LAMBDA o : o.fan_identifier # "" /\ o.min_rpm # None)

\* the cycle is past its fan commands
PastFans(pr) == pr.pc \in {"stamp", "op_read", "op_commit", "op_notify", "op_send"}
                /\ pr.failed = "none"

C25_InertOverride ==
  \A p \in PollProcs :
     LET pr == proc[p]
         perfan == SelectSeq(pr.cmds, LAMBDA c : c.fan # "")
     IN /\ \A n \in 1..Len(perfan) :
             \E j \in 1..Len(pr.srv.fan_overrides) :
                /\ pr.srv.fan_overrides[j].fan_identifier = perfan[n].fan
                /\ pr.srv.fan_overrides[j].min_rpm # None
        /\ Len(perfan) <= Cardinality({j \in 1..Len(pr.srv.fan_overrides) :
                                         pr.srv.fan_overrides[j].min_rpm # None})

\* a cycle over a server with an override without min_rpm is past its fan
\* commands: the all-fans command was issued and none for the fan it names
C25_Witness ==
  \E p \in PollProcs :
     /\ PastFans(proc[p]) /\ proc[p].cmds # <<>>
     /\ \E j \in 1..Len(proc[p].srv.fan_overrides) :
           /\ proc[p].srv.fan_overrides[j].min_rpm = None
           /\ \A n \in 1..Len(proc[p].cmds) :
                 proc[p].cmds[n].fan # proc[p].srv.fan_overrides[j].fan_identifier

\* C26: a cycle of a server without zones issues no fan command
C26_NoZonesNoCommand ==
  \A p \in PollProcs :
     proc[p].srv.zones = <<>> =>
        proc[p].cmds = <<>> /\ proc[p].pc \notin {"set_base", "override"}

\* a cycle of a server without zones and with an override that has a min_rpm
\* has read a temperature and is past the place of the fan commands
C26_Witness ==
  \E p \in PollProcs :
     /\ proc[p].srv.exists /\ proc[p].srv.zones = <<>>
     /\ Effective(proc[p].srv) # <<>>
     /\ proc[p].cpu = 85 /\ PastFans(proc[p])

\* the vendor tags that _build_fan_command has a command for
Mapped(vendor) == vendor \in {"supermicro", "Supermicro"}

C29_SpeedByteBreakpoints ==
  \A p \in PollProcs :
     LET cmds == proc[p].cmds IN
     /\ \A n \in 1..Len(cmds) :
          LET rpm == cmds[n].rpm
              linear == (rpm * 100) \div 5000
          IN /\ rpm = 0 => cmds[n].byte = 100
             /\ (1 <= rpm /\ rpm <= 2000) => cmds[n].byte = 24
             /\ (2001 <= rpm /\ rpm <= 3500) => cmds[n].byte = 48
             /\ rpm > 3500 => cmds[n].byte = IF linear > 100 THEN 100 ELSE linear
             /\ cmds[n].byte <= 100
     /\ \A n, m \in 1..Len(cmds) :
          (1 <= cmds[n].rpm /\ cmds[n].rpm <= cmds[m].rpm) => cmds[n].byte <= cmds[m].byte

\* a cycle has sent the command of 3500 rpm and the command of 3501 rpm, the
\* two sides of the breakpoint where the linear part starts
C29_Witness ==
  \E p \in PollProcs :
     /\ Len(proc[p].cmds) = 2
     /\ proc[p].cmds[1].rpm = 3500 /\ proc[p].cmds[1].byte = 48
     /\ proc[p].cmds[2].rpm = 3501 /\ proc[p].cmds[2].byte = 70

\* C27: a cycle whose queries succeeded and that parsed no CPU temperature
\* has sent no fan command and made no store call for temperature_critical,
\* has run the check of every other enabled kind, and ends with
\* last_successful_poll set
C27_NoTemperatureParsed ==
  [][\A s \in ServerIds, i \in 1..PollSlots :
       LET p == PollOf(s, i)
           pr == proc[p]
       IN (PollEnds(p) /\ CoreSucceeded(pr) /\ pr.cpu = None) =>
             /\ pr.cmds = <<>>
             /\ "temperature_critical" \notin pr.checked
             /\ \A k \in Kinds \ {"connectivity", "temperature_critical"} :
                   IsAlertEnabled(pr.srv, k) => k \in pr.checked
             /\ pr.stamped
             /\ servers'[s].last_successful_poll # None]_vars

\* C28: a cycle with temperature_critical enabled that parsed a temperature
\* and whose fan commands succeeded ends with a live temperature_critical row
\* exactly when the temperature is 80 or more
C28_CriticalAtEighty ==
  [][\A s \in ServerIds, i \in 1..PollSlots :
       LET p == PollOf(s, i)
           pr == proc[p]
       IN (/\ PollEnds(p) /\ CoreSucceeded(pr) /\ pr.cpu # None
           /\ IsAlertEnabled(pr.srv, "temperature_critical")) =>
             (LiveIn(alerts', s, "temperature_critical") # {} <=> pr.cpu >= 80)]_vars

\* the actor of the clears of a process: the requests of the operator clear
\* as manual, the poll job and the staleness monitor as auto
ActorOf(p) == IF p = ApiProc THEN "manual" ELSE "auto"

\* C31: the clear of a manual-clear request and the clear of a job do the
\* same: on a pair without live row they change no row and dispatch nothing,
\* and the request goes on to its success response; on a live row they set
\* cleared_at and last_updated_at to the time of the call and go on to the
\* dispatch of the cleared notification to the enabled channels; the rows
\* differ in cleared_by alone, manual for the request and auto for the jobs
C31_ManualClearLikeAuto ==
  [][\A p \in Procs :
       LET pr == proc[p]
           nx == proc'[p]
           live == LiveIn(alerts, pr.srv.id, pr.op.kind)
           row == {r \in alerts : r.server = pr.srv.id /\ r.kind = pr.op.kind
                                  /\ r.seq = pr.op.seq}
       IN /\ (Stepped(p) /\ pr.op.type = "clear" /\ pr.pc = "op_read"
              /\ pr.sessOk /\ live = {}) =>
                /\ alerts' = alerts
                /\ nx.pc \notin {"op_commit", "op_notify", "op_send"}
                /\ pr.ret = "api_done" => nx.pc = "api_commit" /\ nx.sessOk
          /\ (Stepped(p) /\ pr.op.type = "clear" /\ pr.pc = "op_commit" /\ row # {}
              /\ servers[pr.srv.id].exists) =>
                /\ alerts' = (alerts \ row) \cup
                     {[r EXCEPT !.cleared_at = pr.op.ts, !.last_updated_at = pr.op.ts,
                                !.cleared_by = ActorOf(p)] : r \in row}
                /\ nx.pc = "op_notify" /\ nx.op = pr.op
          /\ (Stepped(p) /\ pr.op.type = "clear" /\ pr.pc = "op_notify") =>
                /\ alerts' = alerts
                /\ nx.pc = "op_send" <=> HasEnabledChannel(pr.srv)
          /\ (Stepped(p) /\ pr.pc = "api_commit") =>
                alerts' = alerts /\ pr.sessOk /\ nx = Idle]_vars

\* the manual-clear request has stamped the live row of the pair as cleared
\* by manual and is at the dispatch of the cleared notification
C31_Witness ==
  /\ proc[ApiProc].pc = "op_notify" /\ proc[ApiProc].op.type = "clear"
  /\ proc[ApiProc].ret = "api_done"
  /\ \E r \in alerts :
        /\ r.server = proc[ApiProc].srv.id /\ r.kind = proc[ApiProc].op.kind
        /\ r.seq = proc[ApiProc].op.seq /\ r.cleared_by = "manual"

\* the last poll of server s failed and no cycle that has not failed is in
\* flight
PollsFailing(s) ==
  /\ cond[s]["connectivity"] = "present"
  /\ \A i \in 1..PollSlots :
        proc[PollOf(s, i)].pc = "idle" \/ proc[PollOf(s, i)].failed # "none"

\* C32: while the polls of a server fail, no step clears with actor auto the
\* live connectivity row that a failed poll raised, and none goes on to the
\* dispatch of its cleared notification
C32_NoClearWhilePollsFail ==
  [][\A p \in Procs :
       LET pr == proc[p]
           s == pr.srv.id
       IN (/\ Stepped(p) /\ pr.pc = "op_commit"
           /\ pr.op.type = "clear" /\ pr.op.kind = "connectivity" /\ pr.op.by = "auto"
           /\ PollsFailing(s)
           /\ \E r \in LiveIn(alerts, s, "connectivity") :
                 r.seq = pr.op.seq /\ r.message \in QueryFailures) =>
             /\ LiveIn(alerts', s, "connectivity") = LiveIn(alerts, s, "connectivity")
             /\ proc'[p].pc # "op_notify"]_vars

\* C33: while no poll of a server has failed, the server has no connectivity
\* row
C33_HealthyNeverOffline ==
  \A r \in alerts : r.kind # "connectivity"

\* C34: when no poll cycle, staleness run or request is in flight, a kind that
\* the alert_config of a server does not enable has no live row for the server
C34_DisabledKindHasNoLiveRow ==
  (\A p \in Procs : proc[p].pc = "idle") =>
     \A s \in ServerIds, k \in Kinds :
        (servers[s].exists /\ ~(k \in DOMAIN servers[s].alert_config
                                /\ servers[s].alert_config[k])) =>
           LiveIn(alerts, s, k) = {}

\* C35: of two clears that found the same live row, the one that commits
\* after the other has cleared the row does not report a clear: it does not
\* go on to the dispatch of a cleared notification
C35_OneClearWins ==
  [][\A p \in Procs :
       LET pr == proc[p] IN
       (/\ Stepped(p) /\ pr.pc = "op_commit" /\ pr.op.type = "clear"
        /\ \E r \in alerts : /\ r.server = pr.srv.id /\ r.kind = pr.op.kind
                             /\ r.seq = pr.op.seq /\ r.cleared_at # None) =>
          proc'[p].pc # "op_notify" /\ alerts' = alerts]_vars

\* C36: an activate that found no row of the pair and commits after another
\* activate has inserted the live row of the pair does not raise: it leaves
\* the one live row, dispatches no second notification, and the cycle or the
\* run it is part of goes on
C36_RacingActivates ==
  [][\A p \in Procs :
       LET pr == proc[p]
           s == pr.srv.id
       IN (/\ Stepped(p) /\ pr.pc = "op_commit"
           /\ pr.op.type = "activate" /\ pr.op.kind = "connectivity"
           /\ pr.op.seq = 0 /\ pr.op.pre = "none" /\ pr.sessOk
           /\ Cardinality(LiveIn(alerts, s, "connectivity")) = 1) =>
             /\ Cardinality(LiveIn(alerts', s, "connectivity")) = 1
             /\ proc'[p].pc # "op_notify"
             /\ proc'[p] = Resume(pr, pr.ret)]_vars

\* C37: a cycle of a server whose vendor has no command mapping, with zones
\* and a parsed temperature, ends as a failed poll: no check of any kind was
\* run, last_successful_poll is as it was, never set, and with connectivity
\* enabled the server has a live connectivity row
C37_UnmappedVendorCycle ==
  [][/\ \A s \in ServerIds, i \in 1..PollSlots :
       LET p == PollOf(s, i)
           pr == proc[p]
       IN (/\ PollEnds(p) /\ pr.pc \notin {"q_temp", "q_fans"}
           /\ ~Mapped(pr.srv.vendor) /\ pr.srv.zones # <<>> /\ pr.cpu # None) =>
             /\ pr.checked = {} /\ pr.found = <<>> /\ ~pr.stamped
             /\ servers'[s].last_successful_poll = None
             /\ pr.cmds = <<>>
             /\ pr.failed = "fan_cmd"
             /\ IsAlertEnabled(pr.srv, "connectivity") =>
                   pr.op.type = "activate" /\ pr.op.kind = "connectivity"
     /\ \A p \in PollProcs :
          LET pr == proc[p] IN
          (/\ Stepped(p) /\ pr.pc = "op_commit" /\ ~Mapped(pr.srv.vendor)
           /\ pr.failed = "fan_cmd" /\ pr.op.seq = 0) =>
             /\ LiveIn(alerts', pr.srv.id, "connectivity") # {}
             /\ proc'[p].pc = "op_notify"]_vars

\* the change of the operation of pr is in the table A
Recorded(pr, A) ==
  \E r \in A :
     /\ r.server = pr.srv.id /\ r.kind = pr.op.kind
     /\ IF pr.op.type = "activate"
        THEN r.cleared_at = None /\ r.first_triggered_at = pr.op.ts
        ELSE r.cleared_at = pr.op.ts /\ r.cleared_by = pr.op.by

\* C38: a step of a cycle that issues a fan command comes before every check
\* and every alert operation of the cycle; a dispatch begins only in the step
\* that commits the change of the record; the steps of the dispatch, whatever
\* the outcome of a delivery, leave the alert table as it is, the recorded
\* change in it
C38_FansThenRecordThenDeliver ==
  [][\A p \in PollProcs :
       LET pr == proc[p]
           nx == proc'[p]
       IN /\ (Stepped(p) /\ Len(nx.cmds) > Len(pr.cmds)) =>
                /\ pr.checked = {} /\ pr.found = <<>> /\ pr.op = NoOp
                /\ pr.pc \notin {"q_check", "op_read", "op_commit", "op_notify", "op_send", "stamp"}
          /\ (Stepped(p) /\ (pr.checked # {} \/ pr.found # <<>> \/ pr.op # NoOp)
                /\ nx.pc # "idle") => nx.cmds = pr.cmds
          /\ (Stepped(p) /\ nx.pc = "op_notify") =>
                pr.pc = "op_commit" /\ alerts' # alerts /\ Recorded(nx, alerts')
          /\ (Stepped(p) /\ nx.pc = "op_send") => pr.pc \in {"op_notify", "op_send"}
          /\ (Stepped(p) /\ pr.pc \in {"op_notify", "op_send"}) =>
                alerts' = alerts /\ Recorded(pr, alerts')]_vars

\* the delivery of a temperature_critical activation to the first channel has
\* failed after the fan commands of the cycle, and the live row is recorded
C38_Witness ==
  \E p \in PollProcs :
     LET pr == proc[p] IN
     /\ pr.pc = "op_send" /\ pr.cmds # <<>>
     /\ pr.op.type = "activate" /\ pr.op.kind = "temperature_critical"
     /\ pr.sent # <<>>
     /\ <<pr.srv.id, "temperature_critical", "activate", pr.sent[1]>> \in undelivered
     /\ Recorded(pr, alerts)

C40_FailedQueryClears ==
  [][\A p \in PollProcs :
       LET pr == proc[p]
           nx == proc'[p]
           k == CheckOrder[pr.chk]
       IN (/\ Stepped(p) /\ pr.pc = "q_check"
           /\ k \in DOMAIN nx.found
           /\ nx.found[k] \in {"absent", "ipmi_fail", "other_fail"}
           /\ LiveIn(alerts, pr.srv.id, k) # {}) =>
             /\ nx.pc = "op_read"
             /\ nx.op.type = "clear" /\ nx.op.kind = k /\ nx.op.by = "auto"]_vars

====
